---------------------------- MODULE Spec2Model ----------------------------
(***************************************************************************)
(* A model of the RPG structure extension: the Generator                   *)
(* (rpg-structure.code.ts), the Importer (rpg-structure.parser.ts), the    *)
(* format tables and the global header / field tree of                     *)
(* rpg-structure.model.ts, and the editing commands of extension.ts,       *)
(* rpg-structure.utils.ts and rpg-structure.providers.ts.                  *)
(*                                                                         *)
(* Text.  A document is a sequence of lines.  A line is a record           *)
(* [ind, toks]: ind is the number of leading whitespace characters and     *)
(* toks the rest of the line as a sequence of lexemes.  A lexeme is a      *)
(* maximal run of word characters (a name, a keyword, a number), one       *)
(* punctuation character, or " ", which stands for a run of one or more    *)
(* whitespace characters.  The regular expressions of the parser are       *)
(* matchers over these lexemes.  Line and span numbers are zero-based as   *)
(* in the code; sequences are one-based, so line n is lines[n + 1].        *)
(***************************************************************************)
EXTENDS Integers, Sequences, FiniteSets, TLC

VARIABLES
    header,                 \* rpg-structure.model.ts: the global header
    fields,                 \* rpg-structure.model.ts: the global field tree
    currentConfiguration,   \* rpg-structure.configuration.ts
    document,               \* the lines of the active editor's document
    cursorLine,             \* editor.selection.active.line
    generated,              \* what the last generate command got from generateRpgCode
    parsed,                 \* the last ParsedStructure of parseStructureAtCursor
    extracted,              \* the last result of extractAllStructures
    pending,                \* commands suspended at an await
    lastOp                  \* the last completed operation

vars == <<header, fields, currentConfiguration, document, cursorLine,
          generated, parsed, extracted, pending, lastOp>>

-----------------------------------------------------------------------------
(* Values *)

\* JavaScript's undefined, for an optional string
UNDEF == "undefined"

\* The result of parseInt on text that is no number
NaN == 0 - 1

\* A value that is not an array, where the code expects Field[]
NotAnArray == [i \in {0} |-> 0]

IsArray(v) == 0 \notin DOMAIN v

\* !s for a string or undefined
Falsy(s) == s \in {UNDEF, ""}

\* The strings of the model that consist of whitespace only
BlankStrings == {" "}

\* String.prototype.trim: every other string of the model carries no
\* leading or trailing whitespace
Trim(s) == IF s \in BlankStrings THEN "" ELSE s

Digits == <<"0", "1", "2", "3", "4", "5", "6", "7", "8", "9">>

\* Number.prototype.toString
RECURSIVE NumberToString(_)
NumberToString(n) ==
    IF n = NaN THEN "NaN"
    ELSE IF n < Len(Digits) THEN Digits[n + 1]
    ELSE NumberToString(n \div Len(Digits)) \o Digits[(n % Len(Digits)) + 1]

MaxNumber == 20

\* parseInt(s, 10) on one lexeme
ParseInt(s) ==
    IF \E n \in 0..MaxNumber : NumberToString(n) = s
    THEN CHOOSE n \in 0..MaxNumber : NumberToString(n) = s
    ELSE NaN

\* String.prototype.toLowerCase on the spellings of the model
LowerCase(s) ==
    CASE s \in {"dcl-ds", "Dcl-ds", "DCL-DS", "DCL-ds"} -> "dcl-ds"
      [] s \in {"end-ds", "End-ds", "END-DS"} -> "end-ds"
      [] s \in {"template", "Template", "TEMPLATE"} -> "template"
      [] s \in {"qualified", "Qualified", "QUALIFIED"} -> "qualified"
      [] s \in {"likeds", "LikeDs", "LIKEDS"} -> "likeds"
      [] s \in {"*var", "*Var", "*VAR"} -> "*var"
      [] s \in {"*auto", "*Auto", "*AUTO"} -> "*auto"
      [] s \in {"dim", "Dim", "DIM"} -> "dim"
      [] s \in {"inz", "Inz", "INZ"} -> "inz"
      [] s \in {"char", "Char", "CHAR"} -> "char"
      [] s \in {"varchar", "Varchar", "VARCHAR"} -> "varchar"
      [] s \in {"int", "Int", "INT"} -> "int"
      [] s \in {"packed", "Packed", "PACKED"} -> "packed"
      [] s \in {"zoned", "Zoned", "ZONED"} -> "zoned"
      [] s \in {"uns", "Uns", "UNS"} -> "uns"
      [] s \in {"date", "Date", "DATE"} -> "date"
      [] s \in {"time", "Time", "TIME"} -> "time"
      [] s \in {"timestamp", "Timestamp", "TIMESTAMP"} -> "timestamp"
      [] s \in {"bin", "Bin", "BIN"} -> "bin"
      [] s \in {"ind", "Ind", "IND"} -> "ind"
      [] s \in {"pointer", "Pointer", "POINTER"} -> "pointer"
      [] OTHER -> s

-----------------------------------------------------------------------------
(* rpg-structure.model.ts *)

StructureFormats == {"dcl-ds", "Dcl-ds", "DCL-DS"}

StructureTypes == {"Default", "template", "*var", "*auto"}

\* The keys of a typeMap, in the order the object literal lists them
TypeKeys ==
    <<"char", "varchar", "int", "packed", "zoned", "uns",
      "date", "time", "timestamp", "bin", "ind", "pointer">>

TypeTags == {TypeKeys[i] : i \in 1..Len(TypeKeys)}

FORMAT_MAP ==
    [f \in StructureFormats |->
        CASE f = "dcl-ds" ->
               [dclds |-> "dcl-ds", endds |-> "end-ds", template |-> "template",
                qualified |-> "qualified", varx |-> "*var", autox |-> "*auto",
                dimx |-> "dim", inz |-> "inz",
                typeMap |->
                  [char |-> "char", varchar |-> "varchar", int |-> "int", packed |-> "packed",
                   zoned |-> "zoned", uns |-> "uns", date |-> "date", time |-> "time",
                   timestamp |-> "timestamp", bin |-> "bin", ind |-> "ind", pointer |-> "pointer"]]
          [] f = "Dcl-ds" ->
               [dclds |-> "Dcl-ds", endds |-> "End-ds", template |-> "Template",
                qualified |-> "Qualified", varx |-> "*Var", autox |-> "*Auto",
                dimx |-> "Dim", inz |-> "Inz",
                typeMap |->
                  [char |-> "Char", varchar |-> "Varchar", int |-> "Int", packed |-> "Packed",
                   zoned |-> "Zoned", uns |-> "Uns", date |-> "Date", time |-> "Time",
                   timestamp |-> "Timestamp", bin |-> "Bin", ind |-> "Ind", pointer |-> "Pointer"]]
          [] f = "DCL-DS" ->
               [dclds |-> "DCL-DS", endds |-> "END-DS", template |-> "TEMPLATE",
                qualified |-> "QUALIFIED", varx |-> "*VAR", autox |-> "*AUTO",
                dimx |-> "DIM", inz |-> "INZ",
                typeMap |->
                  [char |-> "CHAR", varchar |-> "VARCHAR", int |-> "INT", packed |-> "PACKED",
                   zoned |-> "ZONED", uns |-> "UNS", date |-> "DATE", time |-> "TIME",
                   timestamp |-> "TIMESTAMP", bin |-> "BIN", ind |-> "IND", pointer |-> "POINTER"]]]

\* Object.prototype.hasOwnProperty.call(FORMAT_MAP, format)
isValidStructureFormat(format) == format \in DOMAIN FORMAT_MAP

\* getFormatConfig: the table, or a thrown "Unsupported structure format"
getFormatConfig(format) ==
    IF format \in DOMAIN FORMAT_MAP
    THEN [ok |-> TRUE, config |-> <<FORMAT_MAP[format]>>]
    ELSE [ok |-> FALSE, config |-> <<>>]

\* The header a session starts with, and what clearHeader / cleanHeader set
EmptyHeader == [name |-> "", type |-> "", dimension |-> "0"]

\* A Field: dim is <<>> for undefined and <<n>> for the number n
Field(id, name, type, length, init, dim, isStructure, children) ==
    [idNumber |-> id, name |-> name, type |-> type, length |-> length,
     init |-> init, dim |-> dim, isStructure |-> isStructure, fields |-> children]

\* createField
createField(idNumber, name, type, isStructure) ==
    Field(idNumber, name, type, UNDEF, UNDEF, <<>>, isStructure, <<>>)

-----------------------------------------------------------------------------
(* Lines *)

Line(ind, toks) == [ind |-> ind, toks |-> toks]

RECURSIVE Flatten(_)
Flatten(ss) == IF ss = <<>> THEN <<>> ELSE Head(ss) \o Flatten(Tail(ss))

RECURSIVE Join(_)
Join(toks) == IF toks = <<>> THEN "" ELSE Head(toks) \o Join(Tail(toks))

-----------------------------------------------------------------------------
(* rpg-structure.code.ts: the Generator *)

DEFAULT_TAB_SIZE == 3

RpgCodeParams(name, type, dimension, flds, line, level, baseIndent) ==
    [name |-> name, type |-> type, dimension |-> dimension, fields |-> flds,
     line |-> line, level |-> level, baseIndent |-> baseIndent]

\* A validation without the test of the name
validateRpgCodeParams_AnyName(params) ==
    /\ ~Falsy(params.type)
    /\ IsArray(params.fields)
    /\ params.line >= 0
    /\ params.level >= 0

\* TRUE when validateRpgCodeParams returns, FALSE when it throws
validateRpgCodeParams(params) ==
    /\ ~Falsy(params.name) /\ Trim(params.name) # ""
    /\ ~Falsy(params.type)
    /\ IsArray(params.fields)
    /\ params.line >= 0
    /\ params.level >= 0

\* An indentation that adds one unit below the top, whatever the level
calculateIndentation_OneUnit(line, level, baseIndent) ==
    LET tab == IF currentConfiguration.indentation # 0
               THEN currentConfiguration.indentation
               ELSE DEFAULT_TAB_SIZE
    IN  IF line = 0 \/ level = 0
        THEN [tab |-> tab, headIndent |-> baseIndent, subIndent |-> baseIndent + tab]
        ELSE [tab |-> tab, headIndent |-> baseIndent + tab,
              subIndent |-> baseIndent + tab * 2]

\* Indentation as numbers of whitespace characters
calculateIndentation(line, level, baseIndent) ==
    LET tab == IF currentConfiguration.indentation # 0
               THEN currentConfiguration.indentation
               ELSE DEFAULT_TAB_SIZE
    IN  IF line = 0 \/ level = 0
        THEN [tab |-> tab, headIndent |-> baseIndent, subIndent |-> baseIndent + tab]
        ELSE [tab |-> tab, headIndent |-> baseIndent + tab * level,
              subIndent |-> baseIndent + tab * (level + 1)]

\* A dimension clause that a template gets as well
generateDimensionClause_TemplateDim(type, dimension, format) ==
    IF Falsy(dimension) \/ Trim(dimension) = "" \/ Trim(type) = ""
    THEN <<>>
    ELSE LET dimensionValue == Trim(dimension) IN
         CASE type \in {"Default", "template"} ->
                <<" ", format.dimx, "(", dimensionValue, ")">>
           [] type = "*var" ->
                <<" ", format.dimx, "(", format.varx, ":", dimensionValue, ")">>
           [] type = "*auto" ->
                <<" ", format.dimx, "(", format.autox, ":", dimensionValue, ")">>
           [] OTHER -> <<>>

\* The lexemes of the dimension clause, empty when there is none
generateDimensionClause(type, dimension, format) ==
    IF Falsy(dimension) \/ Trim(dimension) = "" \/ Trim(type) = ""
    THEN <<>>
    ELSE LET dimensionValue == Trim(dimension) IN
         CASE type = "Default" -> <<" ", format.dimx, "(", dimensionValue, ")">>
           [] type = "*var" ->
                <<" ", format.dimx, "(", format.varx, ":", dimensionValue, ")">>
           [] type = "*auto" ->
                <<" ", format.dimx, "(", format.autox, ":", dimensionValue, ")">>
           [] type = "template" -> <<>>
           [] OTHER -> <<>>

\* A header that carries the qualified keyword at every level
generateStructureHeader_AllQualified(name, type, dimension, level, line, headIndent) ==
    IF currentConfiguration.structureFormat \notin DOMAIN FORMAT_MAP
    THEN [ok |-> FALSE, line |-> Line(0, <<>>)]
    ELSE LET format == FORMAT_MAP[currentConfiguration.structureFormat]
             open == <<format.dclds, " ", Trim(name)>>
             qual == <<" ", format.qualified>>
             dimc == generateDimensionClause(type, dimension, format)
             tmpl == IF type = "template" /\ line = 0 /\ level = 0
                     THEN <<" ", format.template>> ELSE <<>>
         IN  [ok |-> TRUE,
              line |-> Line(headIndent, open \o qual \o dimc \o tmpl \o <<";">>)]

\* [ok, line]: ok is FALSE when the function throws "Unknown structure format"
generateStructureHeader(name, type, dimension, level, line, headIndent) ==
    IF currentConfiguration.structureFormat \notin DOMAIN FORMAT_MAP
    THEN [ok |-> FALSE, line |-> Line(0, <<>>)]
    ELSE LET format == FORMAT_MAP[currentConfiguration.structureFormat]
             open == <<format.dclds, " ", Trim(name)>>
             qual == IF level = 0 THEN <<" ", format.qualified>> ELSE <<>>
             dimc == generateDimensionClause(type, dimension, format)
             tmpl == IF type = "template" /\ line = 0 /\ level = 0
                     THEN <<" ", format.template>> ELSE <<>>
         IN  [ok |-> TRUE,
              line |-> Line(headIndent, open \o qual \o dimc \o tmpl \o <<";">>)]

\* [ok, line]: ok is FALSE when the function throws (unknown format, or
\* field.name.trim() on a name that is undefined)
generateFieldLine(field, subIndent) ==
    IF currentConfiguration.structureFormat \notin DOMAIN FORMAT_MAP
         \/ field.name = UNDEF
    THEN [ok |-> FALSE, line |-> Line(0, <<>>)]
    ELSE LET format == FORMAT_MAP[currentConfiguration.structureFormat]
             typeUsed == IF field.type \in DOMAIN format.typeMap
                         THEN format.typeMap[field.type] ELSE field.type
             len == IF ~Falsy(field.length) /\ Trim(field.length) # ""
                    THEN <<"(", Trim(field.length), ")">> ELSE <<>>
             ini == IF ~Falsy(field.init) /\ Trim(field.init) # ""
                    THEN <<" ", format.inz, "(", Trim(field.init), ")">> ELSE <<>>
             dimc == IF field.dim # <<>>
                     THEN <<" ", format.dimx, "(", NumberToString(field.dim[1]), ")">>
                     ELSE <<>>
         IN  [ok |-> TRUE,
              line |-> Line(subIndent,
                            <<Trim(field.name), " ", typeUsed>> \o len \o ini \o dimc
                              \o <<";">>)]

\* The comment the catch block of generateStructureBody returns
ErrorComment(field, subIndent) ==
    Line(subIndent, <<"//", " ", "Error generating field:", " ", field.name>>)

\* [ok, line]
generateStructureFooter(headIndent) ==
    IF currentConfiguration.structureFormat \notin DOMAIN FORMAT_MAP
    THEN [ok |-> FALSE, line |-> Line(0, <<>>)]
    ELSE [ok |-> TRUE,
          line |-> Line(headIndent,
                        <<FORMAT_MAP[currentConfiguration.structureFormat].endds, ";">>)]

RECURSIVE generateRpgCode(_)
RECURSIVE BodyFrom(_, _, _, _, _, _)

\* An element that leaves no line where the rendering of the field throws
BodyElement_NoMarker(flds, index, baseIndent, line, level, subIndent) ==
    LET field == flds[index + 1] IN
    IF field.isStructure
    THEN LET r == generateRpgCode(
                    RpgCodeParams(field.name, "Default", field.length, field.fields,
                                  line + index + 1, level + 1, baseIndent))
         IN  IF r.ok THEN r.text ELSE <<>>
    ELSE LET r == generateFieldLine(field, subIndent)
         IN  IF r.ok THEN <<r.line>> ELSE <<>>

\* One element of fields.map(...) in generateStructureBody: the lines that
\* render fields[index + 1], index being the zero-based index of the code
BodyElement(flds, index, baseIndent, line, level, subIndent) ==
    LET field == flds[index + 1] IN
    IF field.isStructure
    THEN LET r == generateRpgCode(
                    RpgCodeParams(field.name, "Default", field.length, field.fields,
                                  line + index + 1, level + 1, baseIndent))
         IN  IF r.ok THEN r.text ELSE <<ErrorComment(field, subIndent)>>
    ELSE LET r == generateFieldLine(field, subIndent)
         IN  IF r.ok THEN <<r.line>> ELSE <<ErrorComment(field, subIndent)>>

BodyFrom(flds, index, baseIndent, line, level, subIndent) ==
    IF index >= Len(flds) THEN <<>>
    ELSE <<BodyElement(flds, index, baseIndent, line, level, subIndent)>>
           \o BodyFrom(flds, index + 1, baseIndent, line, level, subIndent)

\* The strings of the body, one per field, each a sequence of lines
generateStructureBody(flds, baseIndent, line, level, subIndent) ==
    BodyFrom(flds, 0, baseIndent, line, level, subIndent)

\* [ok, text]: ok is FALSE when the call throws "Failed to generate RPG code"
\* and then there is no text; text is the lines that join('\n') puts together
generateRpgCode(params) ==
    IF ~validateRpgCodeParams(params) THEN [ok |-> FALSE, text |-> <<>>]
    ELSE LET ind == calculateIndentation(params.line, params.level, params.baseIndent)
             head == generateStructureHeader(params.name, params.type,
                        params.dimension, params.level, params.line, ind.headIndent)
         IN  IF ~head.ok THEN [ok |-> FALSE, text |-> <<>>]
             ELSE LET body == generateStructureBody(params.fields, params.baseIndent,
                                 params.line, params.level, ind.subIndent)
                      foot == generateStructureFooter(ind.headIndent)
                  IN  IF ~foot.ok THEN [ok |-> FALSE, text |-> <<>>]
                      ELSE [ok |-> TRUE,
                            text |-> <<head.line>> \o Flatten(body) \o <<foot.line>>]

-----------------------------------------------------------------------------
(* rpg-structure.parser.ts: the regular expressions, over lexemes *)

\* The lexemes of the model that are not identifiers
\* ([a-zA-Z_][a-zA-Z0-9_@#]*): punctuation, numbers, quoted literals, the
\* hyphenated and starred keywords.  None of them begins with an identifier
\* character except the hyphenated keywords, which no line of the model
\* carries where a name is expected.
NonIdentifiers ==
    {" ", ";", "(", ")", ":", "//", "", "'A'", "13:2", "NaN", "1x", "*n", "ñ"}
      \cup {NumberToString(n) : n \in 0..MaxNumber}
      \cup {"dcl-ds", "Dcl-ds", "DCL-DS", "DCL-ds", "end-ds", "End-ds", "END-DS",
            "*var", "*Var", "*VAR", "*auto", "*Auto", "*AUTO",
            "Error generating field:"}

IsIdentifier(w) == w \notin NonIdentifiers

\* The identifiers of the model that [a-zA-Z]+ does not match
MixedIdentifiers == {"x_1"}

IsAlpha(w) == IsIdentifier(w) /\ w \notin MixedIdentifiers

\* The least index j >= from with toks[j] = x, or 0
FirstIndex(toks, from, x) ==
    IF \E j \in from..Len(toks) : toks[j] = x
    THEN CHOOSE j \in from..Len(toks) :
             toks[j] = x /\ \A k \in from..(j - 1) : toks[k] # x
    ELSE 0

\* \s* at position p: the position after it
SkipSpace(toks, p) == IF p <= Len(toks) /\ toks[p] = " " THEN p + 1 ELSE p

RECURSIVE TrimToks(_)
\* trim() of a captured group
TrimToks(toks) ==
    IF toks = <<>> THEN <<>>
    ELSE IF Head(toks) = " " THEN TrimToks(Tail(toks))
    ELSE IF toks[Len(toks)] = " " THEN TrimToks(SubSeq(toks, 1, Len(toks) - 1))
    ELSE toks

\* \(([^)]+)\) at position p: [ok, inner, next]
ParenAt(toks, p) ==
    LET close == FirstIndex(toks, p + 1, ")") IN
    IF p <= Len(toks) /\ toks[p] = "(" /\ close > p + 1
    THEN [ok |-> TRUE, inner |-> SubSeq(toks, p + 1, close - 1), next |-> close + 1]
    ELSE [ok |-> FALSE, inner |-> <<>>, next |-> p]

\* (kw)\(([^)]+)\) at position p, kw matched ignoring case: [ok, inner, next]
KeywordParenAt(toks, p, kw) ==
    IF p <= Len(toks) /\ LowerCase(toks[p]) = kw
    THEN ParenAt(toks, p + 1)
    ELSE [ok |-> FALSE, inner |-> <<>>, next |-> p]

\* STRUCTURE_START_PATTERNS[0]: /^\s*(dcl-ds|Dcl-ds|DCL-DS)\s+(name)\s*(.*?);/i
\* [ok, keyword, name, modifiers]: match[1], match[2], match[3]
STRUCTURE_START_PATTERN(line) ==
    LET toks == line.toks
        semi == FirstIndex(toks, 4, ";")
    IN  IF /\ Len(toks) >= 4
           /\ LowerCase(toks[1]) = "dcl-ds"
           /\ toks[2] = " "
           /\ IsIdentifier(toks[3])
           /\ semi # 0
        THEN [ok |-> TRUE, keyword |-> toks[1], name |-> toks[3],
              modifiers |-> SubSeq(toks, SkipSpace(toks, 4), semi - 1)]
        ELSE [ok |-> FALSE, keyword |-> "", name |-> "", modifiers |-> <<>>]

\* STRUCTURE_END_PATTERNS[0]: /^\s*(end-ds|End-ds|END-DS)\s*;/i
STRUCTURE_END_PATTERN(line) ==
    LET toks == line.toks IN
    /\ Len(toks) >= 2
    /\ LowerCase(toks[1]) = "end-ds"
    /\ SkipSpace(toks, 2) <= Len(toks)
    /\ toks[SkipSpace(toks, 2)] = ";"

\* /^\s*(dcl-ds|Dcl-ds|DCL-DS)\s+/i, the test parseNestedStructure and
\* parseSubstructure use for an open line
OpenKeywordTest(line) ==
    LET toks == line.toks IN
    Len(toks) >= 2 /\ LowerCase(toks[1]) = "dcl-ds" /\ toks[2] = " "

\* FIELD_PATTERN: [ok, name, type, length, init, dim], the groups 1, 2, 3,
\* 5 and 7 as lexemes, <<>> for a group that did not take part
FIELD_PATTERN(line) ==
    LET toks == line.toks
        len == ParenAt(toks, 4)
        p1 == SkipSpace(toks, len.next)
        inz == KeywordParenAt(toks, p1, "inz")
        p2 == SkipSpace(toks, inz.next)
        dim == KeywordParenAt(toks, p2, "dim")
        p3 == SkipSpace(toks, dim.next)
    IN  IF /\ Len(toks) >= 4
           /\ IsIdentifier(toks[1])
           /\ toks[2] = " "
           /\ IsAlpha(toks[3])
           /\ p3 <= Len(toks)
           /\ toks[p3] = ";"
        THEN [ok |-> TRUE, name |-> toks[1], type |-> toks[3],
              length |-> len.inner, init |-> inz.inner, dim |-> dim.inner]
        ELSE [ok |-> FALSE, name |-> "", type |-> "",
              length |-> <<>>, init |-> <<>>, dim |-> <<>>]

\* SUBSTRUCTURE_START_PATTERN: [ok, name, dimension], the groups 1 and 3
SUBSTRUCTURE_START_PATTERN(line) ==
    LET toks == line.toks
        len == ParenAt(toks, SkipSpace(toks, 4))
        p1 == SkipSpace(toks, len.next)
    IN  IF /\ Len(toks) >= 4
           /\ IsIdentifier(toks[1])
           /\ toks[2] = " "
           /\ LowerCase(toks[3]) \in {"likeds", "template"}
           /\ p1 <= Len(toks)
           /\ toks[p1] = ";"
        THEN [ok |-> TRUE, name |-> toks[1], dimension |-> len.inner]
        ELSE [ok |-> FALSE, name |-> "", dimension |-> <<>>]

\* modifiers.match(/dim\s*\(\s*([^)]+)\s*\)/i): [ok, value], value being
\* dimMatch[1].trim() as lexemes, at the first place the expression matches
DimMatch(modifiers) ==
    LET At(i) == /\ LowerCase(modifiers[i]) = "dim"
                 /\ ParenAt(modifiers, SkipSpace(modifiers, i + 1)).ok
    IN  IF \E i \in 1..Len(modifiers) : At(i)
        THEN LET i == CHOOSE i \in 1..Len(modifiers) :
                          At(i) /\ \A k \in 1..(i - 1) : ~At(k)
             IN  [ok |-> TRUE,
                  value |-> TrimToks(ParenAt(modifiers,
                                             SkipSpace(modifiers, i + 1)).inner)]
        ELSE [ok |-> FALSE, value |-> <<>>]

\* A group's text, trimmed, or undefined when the group did not take part
GroupText(inner) == IF inner = <<>> THEN UNDEF ELSE Join(TrimToks(inner))

\* getIndentLevel
getIndentLevel(line) == line.ind

\* !trimmedLine || trimmedLine.startsWith('//')
BlankOrComment(line) == line.toks = <<>> \/ line.toks[1] = "//"

-----------------------------------------------------------------------------
(* rpg-structure.parser.ts: RpgStructureParser *)

NotFound == 0 - 1

ParsedStructure(hdr, flds, format, success, errors) ==
    [header |-> hdr, fields |-> flds, format |-> format,
     success |-> success, errors |-> errors]

\* A failing result that reports no error
EmptyResult_NoError(errors) == ParsedStructure(EmptyHeader, <<>>, "dcl-ds", FALSE, <<>>)

\* The result parseStructureAtCursor starts from
EmptyResult(errors) == ParsedStructure(EmptyHeader, <<>>, "dcl-ds", FALSE, errors)

\* A scan that pairs a close line with the oldest open line still unpaired
RECURSIVE ScanLines_Fifo(_, _, _, _)
ScanLines_Fifo(lines, i, structureStack, structures) ==
    IF i >= Len(lines) THEN structures
    ELSE LET line == lines[i + 1]
             match == STRUCTURE_START_PATTERN(line)
             pushed == IF match.ok
                       THEN Append(structureStack,
                                   [startLine |-> i, headerMatch |-> match,
                                    level |-> Len(structureStack)])
                       ELSE structureStack
         IN  IF STRUCTURE_END_PATTERN(line) /\ pushed # <<>>
             THEN LET structureInfo == pushed[1] IN
                  ScanLines_Fifo(lines, i + 1, Tail(pushed),
                                 Append(structures,
                                        [startLine |-> structureInfo.startLine,
                                         endLine |-> i,
                                         headerMatch |-> structureInfo.headerMatch,
                                         level |-> structureInfo.level]))
             ELSE ScanLines_Fifo(lines, i + 1, pushed, structures)

\* The loop of findStructureBoundaries and of findAllStructureBoundaries over
\* the lines from index i on: the completed spans, in the order they close
RECURSIVE ScanLines(_, _, _, _)
ScanLines(lines, i, structureStack, structures) ==
    IF i >= Len(lines) THEN structures
    ELSE LET line == lines[i + 1]
             match == STRUCTURE_START_PATTERN(line)
             pushed == IF match.ok
                       THEN Append(structureStack,
                                   [startLine |-> i, headerMatch |-> match,
                                    level |-> Len(structureStack)])
                       ELSE structureStack
         IN  IF STRUCTURE_END_PATTERN(line) /\ pushed # <<>>
             THEN LET structureInfo == pushed[Len(pushed)] IN
                  ScanLines(lines, i + 1, SubSeq(pushed, 1, Len(pushed) - 1),
                            Append(structures,
                                   [startLine |-> structureInfo.startLine,
                                    endLine |-> i,
                                    headerMatch |-> structureInfo.headerMatch,
                                    level |-> structureInfo.level]))
             ELSE ScanLines(lines, i + 1, pushed, structures)

\* findAllStructureBoundaries
findAllStructureBoundaries(lines) == ScanLines(lines, 0, <<>>, <<>>)

\* A choice that prefers the less nested span for a cursor inside as well
BetterMatch_PreferOuter(bestMatch, structure, cursor) ==
    IF cursor >= structure.startLine /\ cursor <= structure.endLine
    THEN IF bestMatch = <<>> \/ structure.level < bestMatch[1].level
         THEN <<structure>> ELSE bestMatch
    ELSE bestMatch

\* One turn of the loop that chooses bestMatch (<<>> is null)
BetterMatch(bestMatch, structure, cursor) ==
    IF cursor >= structure.startLine /\ cursor <= structure.endLine
    THEN IF cursor = structure.startLine
         THEN IF bestMatch = <<>> \/ structure.level < bestMatch[1].level
              THEN <<structure>> ELSE bestMatch
         ELSE IF cursor = structure.endLine
         THEN IF bestMatch = <<>> \/ structure.level < bestMatch[1].level
              THEN <<structure>> ELSE bestMatch
         ELSE IF bestMatch = <<>> \/ structure.level > bestMatch[1].level
              THEN <<structure>> ELSE bestMatch
    ELSE bestMatch

RECURSIVE BestMatchFrom(_, _, _, _)
BestMatchFrom(structures, k, bestMatch, cursor) ==
    IF k > Len(structures) THEN bestMatch
    ELSE BestMatchFrom(structures, k + 1,
                       BetterMatch(bestMatch, structures[k], cursor), cursor)

\* findStructureBoundaries: <<>> for null, else <<span>>
findStructureBoundaries(lines, cursor) ==
    BestMatchFrom(ScanLines(lines, 0, <<>>, <<>>), 1, <<>>, cursor)

\* The lexemes of the model in which one of the three spellings occurs: the
\* spellings themselves, and a name that ends in one
TemplateBearing == {"template", "Template", "TEMPLATE", "custTemplate"}

\* modifiers.includes('template') || modifiers.includes('Template')
\* || modifiers.includes('TEMPLATE'): the spelling occurs anywhere in the text
includesTemplate(modifiers) ==
    \E i \in 1..Len(modifiers) : modifiers[i] \in TemplateBearing

\* parseHeader
parseHeader(match) ==
    LET modifiers == match.modifiers
        isTemplate == includesTemplate(modifiers)
        dimMatch == DimMatch(modifiers)
        dimValue == dimMatch.value
        marked(ms) == Len(dimValue) >= 2 /\ dimValue[1] \in ms /\ dimValue[2] = ":"
    IN  IF dimMatch.ok /\ marked({"*var", "*Var", "*VAR"})
        THEN [name |-> match.name, type |-> "*var",
              dimension |-> Join(SubSeq(dimValue, 3, Len(dimValue)))]
        ELSE IF dimMatch.ok /\ marked({"*auto", "*Auto", "*AUTO"})
        THEN [name |-> match.name, type |-> "*auto",
              dimension |-> Join(SubSeq(dimValue, 3, Len(dimValue)))]
        ELSE [name |-> match.name,
              type |-> IF isTemplate THEN "template" ELSE "Default",
              dimension |-> IF dimMatch.ok THEN Join(dimValue) ELSE "0"]

\* detectFormat
detectFormat(keyword) ==
    IF keyword \in {"dcl-ds", "Dcl-ds", "DCL-DS"} THEN keyword ELSE "dcl-ds"

\* A lookup that lower-cases the spelling read and not the spelling of the table
GenericType_OneSided(type, format) ==
    LET typeMap == FORMAT_MAP[format].typeMap
        Hit(k) == typeMap[TypeKeys[k]] = LowerCase(type)
    IN  IF \E k \in 1..Len(TypeKeys) : Hit(k)
        THEN TypeKeys[CHOOSE k \in 1..Len(TypeKeys) :
                          Hit(k) /\ \A j \in 1..(k - 1) : ~Hit(j)]
        ELSE type

\* The reverse lookup of parseFieldFromMatch: the first key of the typeMap,
\* in the order of Object.entries, whose spelling matches ignoring case
GenericType(type, format) ==
    LET typeMap == FORMAT_MAP[format].typeMap
        Hit(k) == LowerCase(typeMap[TypeKeys[k]]) = LowerCase(type)
    IN  IF \E k \in 1..Len(TypeKeys) : Hit(k)
        THEN TypeKeys[CHOOSE k \in 1..Len(TypeKeys) :
                          Hit(k) /\ \A j \in 1..(k - 1) : ~Hit(j)]
        ELSE type

\* parseFieldFromMatch
parseFieldFromMatch(match, id, format) ==
    LET dimStr == GroupText(match.dim) IN
    Field(id, match.name, GenericType(match.type, format),
          GroupText(match.length), GroupText(match.init),
          IF Falsy(dimStr) THEN <<>> ELSE <<ParseInt(dimStr)>>,
          FALSE, <<>>)

\* The search of parseNestedStructure for the matching end-ds, from index i
\* on: the index of the close line, or NotFound
RECURSIVE FindNestedEnd(_, _, _)
FindNestedEnd(lines, i, nestedLevel) ==
    IF i >= Len(lines) THEN NotFound
    ELSE LET currentLine == lines[i + 1] IN
         IF BlankOrComment(currentLine) THEN FindNestedEnd(lines, i + 1, nestedLevel)
         ELSE IF OpenKeywordTest(currentLine)
         THEN FindNestedEnd(lines, i + 1, nestedLevel + 1)
         ELSE IF STRUCTURE_END_PATTERN(currentLine)
         THEN IF nestedLevel = 0 THEN i
              ELSE FindNestedEnd(lines, i + 1, nestedLevel - 1)
         ELSE FindNestedEnd(lines, i + 1, nestedLevel)

\* A search that starts from endIndex = startIndex: without a line that ends
\* the substructure the loop would resume on the substructure line itself
RECURSIVE FindSubstructureEnd_OwnLine(_, _, _, _)
FindSubstructureEnd_OwnLine(lines, i, baseIndent, fallback) ==
    IF i >= Len(lines) THEN fallback - 1
    ELSE LET currentLine == lines[i + 1] IN
         IF BlankOrComment(currentLine)
         THEN FindSubstructureEnd_OwnLine(lines, i + 1, baseIndent, fallback)
         ELSE IF /\ getIndentLevel(currentLine) <= baseIndent
                 /\ \/ FIELD_PATTERN(currentLine).ok
                    \/ SUBSTRUCTURE_START_PATTERN(currentLine).ok
                    \/ OpenKeywordTest(currentLine)
                    \/ STRUCTURE_END_PATTERN(currentLine)
         THEN i
         ELSE FindSubstructureEnd_OwnLine(lines, i + 1, baseIndent, fallback)

\* The search of parseSubstructure for the end of the substructure, from
\* index i on: the index found, or fallback when the loop ends without one
RECURSIVE FindSubstructureEnd(_, _, _, _)
FindSubstructureEnd(lines, i, baseIndent, fallback) ==
    IF i >= Len(lines) THEN fallback
    ELSE LET currentLine == lines[i + 1] IN
         IF BlankOrComment(currentLine)
         THEN FindSubstructureEnd(lines, i + 1, baseIndent, fallback)
         ELSE IF /\ getIndentLevel(currentLine) <= baseIndent
                 /\ \/ FIELD_PATTERN(currentLine).ok
                    \/ SUBSTRUCTURE_START_PATTERN(currentLine).ok
                    \/ OpenKeywordTest(currentLine)
                    \/ STRUCTURE_END_PATTERN(currentLine)
         THEN i
         ELSE FindSubstructureEnd(lines, i + 1, baseIndent, fallback)

RECURSIVE ParseFieldsFrom(_, _, _, _)
RECURSIVE parseNestedStructure(_, _, _, _)
RECURSIVE parseSubstructure(_, _, _, _)

\* parseFields: the while loop from line index i with idCounter
parseFields(lines, format) == ParseFieldsFrom(lines, 0, 0, format)

\* [field, nextLine]: field is <<>> for null, else <<the aggregate Field>>
parseNestedStructure(lines, startIndex, id, format) ==
    LET match == STRUCTURE_START_PATTERN(lines[startIndex + 1])
        dimMatch == DimMatch(match.modifiers)
        dimension == IF dimMatch.ok THEN Join(dimMatch.value) ELSE UNDEF
        endIndex == FindNestedEnd(lines, startIndex + 1, 0)
    IN  IF ~match.ok \/ endIndex = NotFound
        THEN [field |-> <<>>, nextLine |-> startIndex + 1]
        ELSE [field |-> <<Field(id, match.name, "", dimension, UNDEF, <<>>, TRUE,
                                parseFields(SubSeq(lines, startIndex + 2, endIndex),
                                            format))>>,
              nextLine |-> endIndex + 1]

\* [field, nextLine]
parseSubstructure(lines, startIndex, id, format) ==
    LET match == SUBSTRUCTURE_START_PATTERN(lines[startIndex + 1])
        baseIndent == getIndentLevel(lines[startIndex + 1])
        endIndex == FindSubstructureEnd(lines, startIndex + 1, baseIndent,
                                        startIndex + 1)
    IN  IF ~match.ok
        THEN [field |-> <<>>, nextLine |-> startIndex + 1]
        ELSE [field |-> <<Field(id, match.name, "", GroupText(match.dimension),
                                UNDEF, <<>>, TRUE,
                                parseFields(SubSeq(lines, startIndex + 2, endIndex),
                                            format))>>,
              nextLine |-> endIndex]

ParseFieldsFrom(lines, i, idCounter, format) ==
    IF i >= Len(lines) THEN <<>>
    ELSE LET line == lines[i + 1] IN
         IF BlankOrComment(line) THEN ParseFieldsFrom(lines, i + 1, idCounter, format)
         ELSE IF STRUCTURE_START_PATTERN(line).ok
         THEN LET nestedStruct == parseNestedStructure(lines, i, idCounter, format) IN
              IF nestedStruct.field # <<>>
              THEN nestedStruct.field
                     \o ParseFieldsFrom(lines, nestedStruct.nextLine, idCounter + 1,
                                        format)
              ELSE ParseFieldsFrom(lines, i + 1, idCounter + 1, format)
         ELSE IF SUBSTRUCTURE_START_PATTERN(line).ok
         THEN LET subStruct == parseSubstructure(lines, i, idCounter, format) IN
              IF subStruct.field # <<>>
              THEN subStruct.field
                     \o ParseFieldsFrom(lines, subStruct.nextLine, idCounter + 1,
                                        format)
              ELSE ParseFieldsFrom(lines, i + 1, idCounter + 1, format)
         ELSE IF FIELD_PATTERN(line).ok
         THEN <<parseFieldFromMatch(FIELD_PATTERN(line), idCounter, format)>>
                \o ParseFieldsFrom(lines, i + 1, idCounter + 1, format)
         ELSE ParseFieldsFrom(lines, i + 1, idCounter, format)

\* parseStructureAtCursor, on the lines of content.split('\n')
parseStructureAtCursor(lines, cursor) ==
    LET boundaries == findStructureBoundaries(lines, cursor) IN
    IF boundaries = <<>>
    THEN EmptyResult(<<"No RPG structure found at cursor position">>)
    ELSE LET b == boundaries[1]
             format == detectFormat(b.headerMatch.keyword)
         IN  ParsedStructure(parseHeader(b.headerMatch),
                             parseFields(SubSeq(lines, b.startLine + 2, b.endLine),
                                         format),
                             format, TRUE, <<>>)

\* The ParsedStructure extractAllStructures builds for one boundary
StructureOf(lines, boundary) ==
    LET format == detectFormat(boundary.headerMatch.keyword) IN
    ParsedStructure(parseHeader(boundary.headerMatch),
                    parseFields(SubSeq(lines, boundary.startLine + 2,
                                       boundary.endLine), format),
                    format, TRUE, <<>>)

\* No filter on the level
TopLevelBoundaries_Unfiltered(allBoundaries) == allBoundaries

\* allBoundaries.filter(boundary => boundary.level === 0)
RECURSIVE TopLevelBoundaries(_)
TopLevelBoundaries(allBoundaries) ==
    IF allBoundaries = <<>> THEN <<>>
    ELSE IF Head(allBoundaries).level = 0
    THEN <<Head(allBoundaries)>> \o TopLevelBoundaries(Tail(allBoundaries))
    ELSE TopLevelBoundaries(Tail(allBoundaries))

\* extractAllStructures
extractAllStructures(lines) ==
    LET top == TopLevelBoundaries(findAllStructureBoundaries(lines)) IN
    [k \in 1..Len(top) |-> StructureOf(lines, top[k])]

\* A validation that looks at the top-level list only
validateFields_Shallow(flds) ==
    \A k \in 1..Len(flds) :
        /\ ~Falsy(flds[k].name)
        /\ flds[k].isStructure \/ ~Falsy(flds[k].type)

\* validateFields
RECURSIVE validateFields(_)
validateFields(flds) ==
    \A k \in 1..Len(flds) :
        /\ ~Falsy(flds[k].name)
        /\ flds[k].isStructure \/ ~Falsy(flds[k].type)
        /\ ~flds[k].isStructure \/ validateFields(flds[k].fields)

\* validateParsedStructure
validateParsedStructure(p) ==
    /\ p.success
    /\ ~Falsy(p.header.name) /\ ~Falsy(p.header.type)
    /\ isValidStructureFormat(p.format)
    /\ validateFields(p.fields)

-----------------------------------------------------------------------------
(* rpg-structure.utils.ts and rpg-structure.providers.ts: the field tree *)

\* A numbering that does not descend into the aggregates
AssignIds_Shallow(flds, idCounter) ==
    [fields |-> [k \in 1..Len(flds) |->
                    [flds[k] EXCEPT !.idNumber = idCounter + k - 1]],
     idCounter |-> idCounter + Len(flds)]

\* assignIds of reassignIdNumbers: [fields, idCounter]
RECURSIVE AssignIds(_, _)
AssignIds(flds, idCounter) ==
    IF flds = <<>> THEN [fields |-> <<>>, idCounter |-> idCounter]
    ELSE LET field == Head(flds)
             sub == IF field.isStructure /\ Len(field.fields) > 0
                    THEN AssignIds(field.fields, idCounter + 1)
                    ELSE [fields |-> field.fields, idCounter |-> idCounter + 1]
             rest == AssignIds(Tail(flds), sub.idCounter)
         IN  [fields |-> <<[field EXCEPT !.idNumber = idCounter,
                                         !.fields = sub.fields]>> \o rest.fields,
              idCounter |-> rest.idCounter]

\* reassignIdNumbers: the list after the call
reassignIdNumbers(fieldList) == AssignIds(fieldList, 0).fields

\* The ids of a list in preorder, every node visited
RECURSIVE PreorderIds(_)
PreorderIds(flds) ==
    IF flds = <<>> THEN <<>>
    ELSE <<Head(flds).idNumber>> \o PreorderIds(Head(flds).fields)
           \o PreorderIds(Tail(flds))

\* traverse of getNextIdNumber: the greatest id met, starting from maxId
RECURSIVE MaxIdFrom(_, _)
MaxIdFrom(flds, maxId) ==
    IF flds = <<>> THEN maxId
    ELSE LET field == Head(flds)
             m1 == IF field.idNumber > maxId THEN field.idNumber ELSE maxId
             m2 == IF field.isStructure /\ Len(field.fields) > 0
                   THEN MaxIdFrom(field.fields, m1) ELSE m1
         IN  MaxIdFrom(Tail(flds), m2)

\* getNextIdNumber
getNextIdNumber(fieldList) == MaxIdFrom(fieldList, NotFound) + 1

-----------------------------------------------------------------------------
(* extension.ts and rpg-structure.utils.ts: the commands *)

MaxDocumentLines == 8

\* The document after editBuilder.replace(lineRange, code) on line n
ReplaceLine(lines, n, code) ==
    SubSeq(lines, 1, n) \o code \o SubSeq(lines, n + 2, Len(lines))

\* A generation that hands the text to the editor and clears the session
GenerateStructure_ClearsSession ==
    /\ cursorLine < Len(document)
    /\ \E params \in {RpgCodeParams(header.name, header.type, header.dimension,
                                    fields, 0, 0, document[cursorLine + 1].ind)} :
       \E r \in {generateRpgCode(params)} :
           /\ generated' = <<[params |-> params, ok |-> r.ok, text |-> r.text]>>
           /\ \E applied \in BOOLEAN :
                /\ applied =>
                     r.ok /\ Len(document) - 1 + Len(r.text) <= MaxDocumentLines
                /\ document' = IF applied
                               THEN ReplaceLine(document, cursorLine, r.text)
                               ELSE document
    /\ header' = EmptyHeader
    /\ fields' = <<>>
    /\ lastOp' = "generate"
    /\ UNCHANGED <<currentConfiguration, cursorLine, parsed, extracted, pending>>

\* generateStructure -> handleInsert: the code is generated from the global
\* header and fields with the indentation of the cursor line as baseIndent,
\* and the edit that replaces the cursor line is applied or fails
GenerateStructure ==
    /\ cursorLine < Len(document)
    /\ \E params \in {RpgCodeParams(header.name, header.type, header.dimension,
                                    fields, 0, 0, document[cursorLine + 1].ind)} :
       \E r \in {generateRpgCode(params)} :
           /\ generated' = <<[params |-> params, ok |-> r.ok, text |-> r.text]>>
           /\ \E applied \in BOOLEAN :
                /\ applied =>
                     r.ok /\ Len(document) - 1 + Len(r.text) <= MaxDocumentLines
                /\ document' = IF applied
                               THEN ReplaceLine(document, cursorLine, r.text)
                               ELSE document
    /\ lastOp' = "generate"
    /\ UNCHANGED <<header, fields, currentConfiguration, cursorLine, parsed,
                   extracted, pending>>

\* An import that pushes the parsed fields without clearing the session
ImportStructureAtCursor_NoClear ==
    /\ \E p \in {parseStructureAtCursor(document, cursorLine)} :
       \E overwrite \in BOOLEAN :
       \E asked \in {header.name # "" \/ fields # <<>>} :
       \E outcome \in {IF ~p.success THEN "import failed"
                       ELSE IF ~validateParsedStructure(p) THEN "import invalid"
                       ELSE IF asked /\ ~overwrite THEN "import declined"
                       ELSE "import"} :
           /\ asked \/ overwrite
           /\ parsed' = <<p>>
           /\ lastOp' = outcome
           /\ header' = IF outcome = "import" THEN p.header ELSE header
           /\ fields' = IF outcome = "import" THEN fields \o p.fields ELSE fields
    /\ UNCHANGED <<currentConfiguration, document, cursorLine, generated,
                   extracted, pending>>

\* importStructureAtCursor; the modal question is asked when the session
\* holds a header name or a field, and overwrite is the user's answer
ImportStructureAtCursor ==
    /\ \E p \in {parseStructureAtCursor(document, cursorLine)} :
       \E overwrite \in BOOLEAN :
       \E asked \in {header.name # "" \/ fields # <<>>} :
       \E outcome \in {IF ~p.success THEN "import failed"
                       ELSE IF ~validateParsedStructure(p) THEN "import invalid"
                       ELSE IF asked /\ ~overwrite THEN "import declined"
                       ELSE "import"} :
           /\ asked \/ overwrite
           /\ parsed' = <<p>>
           /\ lastOp' = outcome
           /\ header' = IF outcome = "import" THEN p.header ELSE header
           /\ fields' = IF outcome = "import" THEN p.fields ELSE fields
    /\ UNCHANGED <<currentConfiguration, document, cursorLine, generated,
                   extracted, pending>>

-----------------------------------------------------------------------------
(* The inputs of the Generator: headers, field forests, configurations *)

MaxNodes == 3

\* Leaf fields: two that are well formed, one whose name is undefined
GenLeaves ==
    {Field(0, "a", "char", "5", UNDEF, <<>>, FALSE, <<>>),
     Field(0, "b", "packed", "13:2", "7", <<3>>, FALSE, <<>>),
     Field(0, UNDEF, "char", "5", UNDEF, <<>>, FALSE, <<>>)}

\* Aggregates: name and length; one has an empty name
GenAggregates ==
    {[name |-> "g", length |-> UNDEF], [name |-> "h", length |-> "2"],
     [name |-> "", length |-> UNDEF]}

Aggregate(label, children) ==
    Field(0, label.name, "", label.length, UNDEF, <<>>, TRUE, children)

RECURSIVE TreesOfSize(_)
RECURSIVE ForestsOfSize(_)

\* The trees with n nodes
TreesOfSize(n) ==
    IF n = 1
    THEN GenLeaves \cup {Aggregate(l, <<>>) : l \in GenAggregates}
    ELSE {Aggregate(l, c) : l \in GenAggregates, c \in ForestsOfSize(n - 1)}

\* The forests with n nodes
ForestsOfSize(n) ==
    IF n = 0 THEN {<<>>}
    ELSE UNION {{<<t>> \o r : t \in TreesOfSize(k), r \in ForestsOfSize(n - k)} :
                   k \in 1..n}

\* Every forest of at most MaxNodes nodes, with the ids of a renumbered tree
GenForests ==
    {reassignIdNumbers(f) : f \in UNION {ForestsOfSize(n) : n \in 0..MaxNodes}}

\* Every type tag, with and without length, init and dim
AllLeaves ==
    {Field(0, "a", t, len, init, dim, FALSE, <<>>) :
        t \in TypeTags, len \in {UNDEF, "5"}, init \in {UNDEF, "7"},
        dim \in {<<>>, <<3>>}}

\* A forest of three levels: g holds h, an aggregate with a length, and a
\* field; h holds a field
DeepForest ==
    <<Field(0, "g", "", UNDEF, UNDEF, <<>>, TRUE,
            <<Field(1, "h", "", "2", UNDEF, <<>>, TRUE,
                    <<Field(2, "a", "char", "5", UNDEF, <<>>, FALSE, <<>>)>>),
              Field(3, "b", "packed", "13:2", "7", <<3>>, FALSE, <<>>)>>)>>

SmallForests ==
    {<<>>,
     <<Field(0, "a", "char", "5", UNDEF, <<>>, FALSE, <<>>)>>,
     <<Field(0, "g", "", UNDEF, UNDEF, <<>>, TRUE,
             <<Field(1, "a", "char", "5", UNDEF, <<>>, FALSE, <<>>)>>)>>,
     DeepForest}

GenHeaders ==
    [name : {"s", "", " "}, type : StructureTypes \cup {""},
     dimension : {UNDEF, "0", "5"}]

GenConfigurations ==
    [structureFormat : StructureFormats \cup {"dcl-pr"}, indentation : {0, 2}]

\* The inputs: every forest under one header, every header and
\* configuration over a few forests, every kind of leaf
GenInputs ==
    [header : {[name |-> "s", type |-> "Default", dimension |-> "5"]},
     fields : GenForests,
     config : [structureFormat : StructureFormats, indentation : {3}],
     baseIndent : {0}]
    \cup
    [header : GenHeaders, fields : SmallForests, config : GenConfigurations,
     baseIndent : {0, 1}]
    \cup
    [header : {[name |-> "s", type |-> "Default", dimension |-> "5"]},
     fields : {<<l>> : l \in AllLeaves},
     config : [structureFormat : StructureFormats, indentation : {3}],
     baseIndent : {0}]

\* The state in which a session holds an input and the editor an empty line
GenInit ==
    \E in \in GenInputs :
        /\ header = in.header
        /\ fields = in.fields
        /\ currentConfiguration = in.config
        /\ document = <<Line(in.baseIndent, <<>>)>>
        /\ cursorLine = 0
        /\ generated = <<>>
        /\ parsed = <<>>
        /\ extracted = <<>>
        /\ pending = <<>>
        /\ lastOp = "init"

GenNext == GenerateStructure \/ ImportStructureAtCursor

SpecGen == GenInit /\ [][GenNext]_vars

-----------------------------------------------------------------------------
(* The importer over documents *)

\* rpg-structure.configuration.ts
DEFAULT_CONFIGURATION == [structureFormat |-> "dcl-ds", indentation |-> 3]

MaxParseLines == 4

MaxParseNodes == 2

OpenLine(ind, keyword, name, modifiers) ==
    Line(ind, <<keyword, " ", name>> \o modifiers \o <<";">>)

CloseLine(ind, keyword) == Line(ind, <<keyword, ";">>)

FieldLine(ind, name) == Line(ind, <<name, " ", "char", "(", "5", ")", ";">>)

\* The lines arbitrary documents are made of: an open line, an open line in
\* capitals with a dim clause, a close line, a field line and an empty line
ParseLines ==
    {OpenLine(0, "dcl-ds", "s", <<" ", "qualified">>),
     OpenLine(3, "DCL-DS", "g", <<" ", "dim", "(", "2", ")">>),
     CloseLine(0, "end-ds"),
     FieldLine(3, "a"),
     Line(0, <<>>)}

\* A declaration on lines 0 to 10 with a nested one on lines 3 to 7
NestedExample ==
    <<OpenLine(0, "dcl-ds", "s", <<" ", "qualified">>),
      FieldLine(3, "a"),
      FieldLine(3, "b"),
      OpenLine(3, "dcl-ds", "g", <<>>),
      FieldLine(6, "a"),
      FieldLine(6, "b"),
      FieldLine(6, "c"),
      CloseLine(3, "end-ds"),
      FieldLine(3, "c"),
      FieldLine(3, "d"),
      CloseLine(0, "end-ds")>>

\* The text generateRpgCode makes of a forest under the header s
GeneratedDocument(flds) ==
    generateRpgCode(RpgCodeParams("s", "Default", "5", flds, 0, 0, 0)).text

\* The text of s holding the aggregate g holding the field a
NestedOnce ==
    GeneratedDocument(<<Aggregate([name |-> "g", length |-> UNDEF],
                                  <<Field(1, "a", "char", "5", UNDEF, <<>>,
                                          FALSE, <<>>)>>)>>)

\* A declaration whose one field line carries a type word that no format
\* table spells
UnknownTypeExample ==
    <<OpenLine(0, "dcl-ds", "s", <<" ", "qualified">>),
      Line(3, <<"x", " ", "foo", "(", "5", ")", ";">>),
      CloseLine(0, "end-ds")>>

\* A declaration s holding a declaration g that holds an unnamed declaration
\* without lines and the field a
UnnamedNestedExample ==
    <<OpenLine(0, "dcl-ds", "s", <<" ", "qualified">>),
      OpenLine(3, "dcl-ds", "g", <<>>),
      Line(6, <<"dcl-ds", " ", "*n", ";">>),
      FieldLine(6, "a"),
      CloseLine(3, "end-ds"),
      CloseLine(0, "end-ds")>>

\* A close line that closes nothing, a declaration with a nested one, and
\* an open line that nothing closes
StrayCloseExample ==
    <<CloseLine(0, "end-ds"),
      OpenLine(0, "dcl-ds", "s", <<" ", "qualified">>),
      OpenLine(3, "DCL-DS", "g", <<" ", "dim", "(", "2", ")">>),
      FieldLine(3, "a"),
      CloseLine(3, "end-ds"),
      CloseLine(0, "end-ds"),
      OpenLine(0, "dcl-ds", "s", <<" ", "qualified">>)>>

MaxSubstructureLines == 3

\* name likeds(t); the substructure shorthand
SubstructureLine(ind, name) == Line(ind, <<name, " ", "likeds", "(", "t", ")", ";">>)

\* The lines of a body with the substructure shorthand: a substructure at two
\* indentations, a field at three, and an empty line
SubstructureLines ==
    {SubstructureLine(3, "g"), SubstructureLine(6, "h"),
     FieldLine(3, "a"), FieldLine(6, "b"), FieldLine(9, "c"),
     Line(0, <<>>)}

\* A declaration around every body of at most MaxSubstructureLines such lines
SubstructureDocuments ==
    {<<OpenLine(0, "dcl-ds", "s", <<" ", "qualified">>)>> \o body
       \o <<CloseLine(0, "end-ds")>> :
        body \in UNION {[1..n -> SubstructureLines] : n \in 1..MaxSubstructureLines}}

\* The documents of the importer: every sequence of at most MaxParseLines
\* lines, the texts the generator makes of the forests of at most
\* MaxParseNodes nodes, and the examples
ParseDocuments ==
    UNION {[1..n -> ParseLines] : n \in 1..MaxParseLines}
      \cup {GeneratedDocument(f) :
               f \in UNION {ForestsOfSize(n) : n \in 0..MaxParseNodes}}
      \cup SubstructureDocuments
      \cup {NestedExample, UnknownTypeExample, StrayCloseExample,
            UnnamedNestedExample}

ParseInit ==
    /\ currentConfiguration = DEFAULT_CONFIGURATION
    /\ header = EmptyHeader
    /\ fields = <<>>
    /\ document \in ParseDocuments
    /\ cursorLine \in 0..(Len(document) - 1)
    /\ generated = <<>>
    /\ parsed = <<>>
    /\ extracted = <<>>
    /\ pending = <<>>
    /\ lastOp = "init"

\* importFromStructureList: the structures of the document are offered in a
\* quick pick (selected = 0: dismissed), the overwrite of a non-empty model
\* is confirmed, and the selected structure replaces header and fields
ImportFromStructureList ==
    /\ \E structures \in {extractAllStructures(document)} :
       \E selected \in 0..Len(structures) :
       \E overwrite \in BOOLEAN :
       \E asked \in {selected # 0 /\ (header.name # "" \/ fields # <<>>)} :
       \E outcome \in {IF structures = <<>> THEN "list empty"
                       ELSE IF selected = 0 THEN "list dismissed"
                       ELSE IF asked /\ ~overwrite THEN "list declined"
                       ELSE "list import"} :
           /\ asked \/ overwrite
           /\ extracted' = <<structures>>
           /\ lastOp' = outcome
           /\ header' = IF outcome = "list import"
                        THEN structures[selected].header ELSE header
           /\ fields' = IF outcome = "list import"
                        THEN structures[selected].fields ELSE fields
    /\ UNCHANGED <<currentConfiguration, document, cursorLine, generated,
                   parsed, pending>>

ParseNext == ImportStructureAtCursor \/ ImportFromStructureList

\* The cursor is on any line of the document; it does not move while the
\* importer is being exercised
SpecParse == ParseInit /\ [][ParseNext]_vars

-----------------------------------------------------------------------------
(* The editing session: rpg-structure.utils.ts, the providers, extension.ts *)

MaxFields == 3

MaxPending == 1

\* What the user types at the name prompts
FieldNames == {"a"}

SubstructureNames == {"g", "h"}

\* The nodes of a forest, at every depth
RECURSIVE Nodes(_)
Nodes(flds) ==
    IF flds = <<>> THEN {}
    ELSE {Head(flds)} \cup Nodes(Head(flds).fields) \cup Nodes(Tail(flds))

CountNodes(flds) == Len(PreorderIds(flds))

\* fieldNameExists, on the top-level list
fieldNameExists(name, fieldList) ==
    \E k \in 1..Len(fieldList) : LowerCase(fieldList[k].name) = LowerCase(name)

\* findFieldById: <<>> for null, else <<field>>
RECURSIVE findFieldById(_, _)
findFieldById(fieldList, id) ==
    IF fieldList = <<>> THEN <<>>
    ELSE LET field == Head(fieldList)
             found == IF field.isStructure /\ Len(field.fields) > 0
                      THEN findFieldById(field.fields, id) ELSE <<>>
         IN  IF field.idNumber = id THEN <<field>>
             ELSE IF found # <<>> THEN found
             ELSE findFieldById(Tail(fieldList), id)

\* parent.fields.push(field) on the node findFieldById returns for id
RECURSIVE PushInto(_, _, _)
PushInto(fieldList, id, field) ==
    IF fieldList = <<>> THEN <<>>
    ELSE LET head == Head(fieldList) IN
         IF head.idNumber = id
         THEN <<[head EXCEPT !.fields = Append(@, field)]>> \o Tail(fieldList)
         ELSE IF /\ head.isStructure /\ Len(head.fields) > 0
                 /\ findFieldById(head.fields, id) # <<>>
         THEN <<[head EXCEPT !.fields = PushInto(@, id, field)]>> \o Tail(fieldList)
         ELSE <<head>> \o PushInto(Tail(fieldList), id, field)

\* FieldsTreeDataProvider.addFieldBefore: the global fields after the call
addFieldBefore(fieldList, field, before) ==
    reassignIdNumbers(
        IF before <= 0 THEN <<field>> \o fieldList
        ELSE IF before >= Len(fieldList) THEN Append(fieldList, field)
        ELSE SubSeq(fieldList, 1, before) \o <<field>>
               \o SubSeq(fieldList, before + 1, Len(fieldList)))

\* FieldsTreeDataProvider.addFieldStructure: [ok, fields]
addFieldStructure(fieldsArray, field, targetId) ==
    LET parent == findFieldById(fieldsArray, targetId) IN
    IF parent = <<>> \/ ~parent[1].isStructure
    THEN [ok |-> FALSE, fields |-> fieldsArray]
    ELSE [ok |-> TRUE,
          fields |-> reassignIdNumbers(PushInto(fieldsArray, targetId, field))]

\* deleteById of performDeletion: [deleted, fields]
RECURSIVE deleteById(_, _)
deleteById(fieldList, id) ==
    IF fieldList = <<>> THEN [deleted |-> FALSE, fields |-> <<>>]
    ELSE LET head == Head(fieldList)
             inner == IF head.isStructure /\ Len(head.fields) > 0
                      THEN deleteById(head.fields, id)
                      ELSE [deleted |-> FALSE, fields |-> head.fields]
             rest == deleteById(Tail(fieldList), id)
         IN  IF head.idNumber = id
             THEN [deleted |-> TRUE, fields |-> Tail(fieldList)]
             ELSE IF inner.deleted
             THEN [deleted |-> TRUE,
                   fields |-> <<[head EXCEPT !.fields = inner.fields]>>
                                \o Tail(fieldList)]
             ELSE [deleted |-> rest.deleted, fields |-> <<head>> \o rest.fields]

\* The document open in the editor during a session, with the cursor on its
\* first line: the imports bring in a tree of two levels
SessionDocuments == {NestedOnce}

SessionInit ==
    /\ currentConfiguration = DEFAULT_CONFIGURATION
    /\ header = EmptyHeader
    /\ fields = <<>>
    /\ document \in SessionDocuments
    /\ cursorLine = 0
    /\ generated = <<>>
    /\ parsed = <<>>
    /\ extracted = <<>>
    /\ pending = <<>>
    /\ lastOp = "init"

\* COMMANDS.ADD_FIELD: insertField(false, fields.length, provider) up to its
\* first prompt; the position is the length of the list at that moment
AddField ==
    /\ Len(pending) < MaxPending
    /\ pending' = Append(pending, [isSubstructure |-> FALSE,
                                   position |-> Len(fields),
                                   item |-> UNDEF])
    /\ UNCHANGED <<header, fields, currentConfiguration, document, cursorLine,
                   generated, parsed, extracted, lastOp>>

\* COMMANDS.ADD_FIELD_TO_SUBSTRUCTURE on an item of the tree view:
\* insertField(true, item.idNumber, provider) up to its first prompt.  The
\* call keeps item.idNumber only; the name of the item the handler was
\* given is recorded beside it
AddFieldToSubstructure ==
    /\ Len(pending) < MaxPending
    /\ \E item \in Nodes(fields) :
          pending' = Append(pending, [isSubstructure |-> TRUE,
                                      position |-> item.idNumber,
                                      item |-> item.name])
    /\ UNCHANGED <<header, fields, currentConfiguration, document, cursorLine,
                   generated, parsed, extracted, lastOp>>

\* insertField from its first prompt on: the name prompt is dismissed
\* (name undefined), or the field is created with the next id and attached
\* by addFieldBefore or addFieldStructure
InsertFieldComplete ==
    /\ \E k \in 1..Len(pending) :
       \E name \in FieldNames \cup {UNDEF} :
       \E newField \in {Field(getNextIdNumber(fields), name, "char", "5", UNDEF,
                              <<>>, FALSE, <<>>)} :
       \E attached \in {addFieldStructure(fields, newField, pending[k].position)} :
           /\ name # UNDEF => CountNodes(fields) < MaxFields
           /\ pending' = SubSeq(pending, 1, k - 1)
                           \o SubSeq(pending, k + 1, Len(pending))
           /\ fields' = IF name = UNDEF THEN fields
                        ELSE IF ~pending[k].isSubstructure
                        THEN addFieldBefore(fields, newField, pending[k].position)
                        ELSE attached.fields
           /\ lastOp' = IF name = UNDEF THEN "insertField dismissed"
                        ELSE IF ~pending[k].isSubstructure THEN "addFieldBefore"
                        ELSE IF attached.ok THEN "addFieldStructure"
                        ELSE "addFieldStructure failed"
    /\ UNCHANGED <<header, currentConfiguration, document, cursorLine,
                   generated, parsed, extracted>>

\* COMMANDS.ADD_SUBSTRUCTURE: insertSubstructure; the name prompt accepts no
\* name the top-level list holds already
InsertSubstructure ==
    /\ CountNodes(fields) < MaxFields
    /\ \E name \in SubstructureNames :
          /\ ~fieldNameExists(name, fields)
          /\ fields' = Append(fields, Field(getNextIdNumber(fields), name, "",
                                            UNDEF, UNDEF, <<>>, TRUE, <<>>))
    /\ lastOp' = "addField"
    /\ UNCHANGED <<header, currentConfiguration, document, cursorLine,
                   generated, parsed, extracted, pending>>

\* COMMANDS.DELETE_FIELD on an item of the tree view: deleteField, with the
\* confirmation it asks for an aggregate that has children
DeleteField ==
    /\ \E item \in Nodes(fields) :
       \E confirmed \in BOOLEAN :
       \E asked \in {item.isStructure /\ Len(item.fields) > 0} :
       \E r \in {deleteById(fields, item.idNumber)} :
           /\ asked \/ confirmed
           /\ fields' = IF (asked /\ ~confirmed) \/ ~r.deleted THEN fields
                        ELSE reassignIdNumbers(r.fields)
           /\ lastOp' = IF asked /\ ~confirmed THEN "deleteField declined"
                        ELSE IF r.deleted THEN "deleteField"
                        ELSE "deleteField not found"
    /\ UNCHANGED <<header, currentConfiguration, document, cursorLine,
                   generated, parsed, extracted, pending>>

\* COMMANDS.CLEAN_HEADER
CleanHeader ==
    /\ header' = EmptyHeader
    /\ lastOp' = "cleanHeader"
    /\ UNCHANGED <<fields, currentConfiguration, document, cursorLine,
                   generated, parsed, extracted, pending>>

\* COMMANDS.CLEAN_FIELDS
CleanFields ==
    /\ fields' = <<>>
    /\ lastOp' = "cleanFields"
    /\ UNCHANGED <<header, currentConfiguration, document, cursorLine,
                   generated, parsed, extracted, pending>>

Next ==
    \/ AddField
    \/ AddFieldToSubstructure
    \/ InsertFieldComplete
    \/ InsertSubstructure
    \/ DeleteField
    \/ CleanHeader
    \/ CleanFields
    \/ ImportStructureAtCursor
    \/ ImportFromStructureList

Spec == SessionInit /\ [][Next]_vars

-----------------------------------------------------------------------------
(* The input boxes: what the user types is a sequence of characters *)

\* The keys the user has: digits, the colon, the space and a letter
KeyChars == {"0", "1", "2", "3", "5", ":", " ", "x"}

\* Every text of at most n keys
TypedTexts(n) == UNION {[1..k -> KeyChars] : k \in 0..n}

IsDigit(c) == \E i \in 1..Len(Digits) : Digits[i] = c

\* INTEGER_REGEX.test(cs): /^\d+$/
INTEGER_REGEX(cs) == cs # <<>> /\ \A i \in 1..Len(cs) : IsDigit(cs[i])

\* The position of the colon that DECIMAL_REGEX finds, or 0
ColonOf(cs) ==
    IF \E p \in 2..(Len(cs) - 1) :
           /\ cs[p] = ":"
           /\ INTEGER_REGEX(SubSeq(cs, 1, p - 1))
           /\ INTEGER_REGEX(SubSeq(cs, p + 1, Len(cs)))
    THEN CHOOSE p \in 2..(Len(cs) - 1) :
           /\ cs[p] = ":"
           /\ INTEGER_REGEX(SubSeq(cs, 1, p - 1))
           /\ INTEGER_REGEX(SubSeq(cs, p + 1, Len(cs)))
    ELSE 0

\* DECIMAL_REGEX.test(cs): /^\d+:\d+$/
DECIMAL_REGEX(cs) == ColonOf(cs) # 0

\* String.prototype.trim on characters
RECURSIVE TrimChars(_)
TrimChars(cs) ==
    IF cs = <<>> THEN <<>>
    ELSE IF Head(cs) = " " THEN TrimChars(Tail(cs))
    ELSE IF cs[Len(cs)] = " " THEN TrimChars(SubSeq(cs, 1, Len(cs) - 1))
    ELSE cs

\* Number(cs) and parseInt(cs, 10) on a text of digits
RECURSIVE NumberOf(_)
NumberOf(cs) ==
    IF cs = <<>> THEN 0
    ELSE NumberOf(SubSeq(cs, 1, Len(cs) - 1)) * 10
           + (CHOOSE d \in 0..9 : Digits[d + 1] = cs[Len(cs)])

\* rpg-structure.helper.ts: isPositiveInteger
isPositiveInteger(value) == INTEGER_REGEX(value) /\ NumberOf(value) > 0

-----------------------------------------------------------------------------
(* The header of the session: the clicks on the items of the header view *)

MaxDimensionKeys == 1

StructureNames == {"s"}

\* A template declaration that carries a dimension
TemplateDimExample ==
    <<OpenLine(0, "dcl-ds", "t",
               <<" ", "qualified", " ", "dim", "(", "5", ")", " ", "template">>),
      FieldLine(3, "a"),
      CloseLine(0, "end-ds")>>

\* A declaration for every combination of modifiers, in both orders.  The
\* dim clauses: none, a number, the markers of a variable and of an
\* automatic length, and a marker in no known spelling.  What else the line
\* carries: nothing, the template keyword, and a reference to a structure
\* whose name ends in Template
ModifierDocuments ==
    LET HeaderDimClauses ==
            {<<>>,
             <<" ", "dim", "(", "5", ")">>,
             <<" ", "dim", "(", "*var", ":", "5", ")">>,
             <<" ", "DIM", "(", "*AUTO", ":", "5", ")">>,
             <<" ", "dim", "(", "*vAr", ":", "5", ")">>}
        HeaderKeywords ==
            {<<>>, <<" ", "template">>, <<" ", "TEMPLATE">>,
             <<" ", "likeds", "(", "custTemplate", ")">>}
    IN  {<<OpenLine(0, "dcl-ds", "s", IF dimFirst THEN d \o k ELSE k \o d),
           FieldLine(3, "a"),
           CloseLine(0, "end-ds")>> :
            d \in HeaderDimClauses, k \in HeaderKeywords, dimFirst \in BOOLEAN}

\* A template declaration without a dimension, and a declaration with one
HeaderDocuments ==
    ModifierDocuments \cup
    {TemplateDimExample,
     <<OpenLine(0, "dcl-ds", "t", <<" ", "qualified", " ", "template">>),
       FieldLine(3, "a"),
       CloseLine(0, "end-ds")>>,
     <<OpenLine(0, "dcl-ds", "s", <<" ", "qualified", " ", "dim", "(", "5", ")">>),
       FieldLine(3, "a"),
       CloseLine(0, "end-ds")>>}

HeaderInit ==
    /\ currentConfiguration = DEFAULT_CONFIGURATION
    /\ header = EmptyHeader
    /\ fields = <<>>
    /\ document \in HeaderDocuments
    /\ cursorLine = 0
    /\ generated = <<>>
    /\ parsed = <<>>
    /\ extracted = <<>>
    /\ pending = <<>>
    /\ lastOp = "init"

\* handleNameInput: the box is dismissed (undefined), or holds a text
HandleNameInput ==
    /\ \E inputName \in StructureNames \cup {UNDEF, "", " "} :
          /\ header' = IF inputName = UNDEF \/ Trim(inputName) = "" THEN header
                       ELSE [header EXCEPT !.name = Trim(inputName)]
          /\ lastOp' = IF inputName = UNDEF \/ Trim(inputName) = ""
                       THEN "handleNameInput returned"
                       ELSE "handleNameInput"
    /\ UNCHANGED <<fields, currentConfiguration, document, cursorLine,
                   generated, parsed, extracted, pending>>

\* handleTypeInput: the pick is dismissed, or one of the four types is chosen
HandleTypeInput ==
    /\ \E inputType \in StructureTypes \cup {UNDEF} :
          /\ header' = IF inputType = UNDEF THEN header
                       ELSE IF inputType = "template"
                       THEN [header EXCEPT !.type = inputType, !.dimension = UNDEF]
                       ELSE [header EXCEPT !.type = inputType]
          /\ lastOp' = IF inputType = UNDEF THEN "handleTypeInput returned"
                       ELSE "handleTypeInput"
    /\ UNCHANGED <<fields, currentConfiguration, document, cursorLine,
                   generated, parsed, extracted, pending>>

\* handleDimensionInput: refused for a template; else the box is dismissed
\* (dismissed = TRUE) or holds a text, which is checked again after the box
HandleDimensionInput ==
    /\ \E dismissed \in BOOLEAN :
       \E inputDimension \in TypedTexts(MaxDimensionKeys) :
       \E trimmed \in {TrimChars(inputDimension)} :
       \E outcome \in {IF header.type = "template" THEN "handleDimensionInput refused"
                       ELSE IF dismissed \/ trimmed = <<>>
                              \/ ~isPositiveInteger(trimmed)
                       THEN "handleDimensionInput returned"
                       ELSE "handleDimensionInput"} :
          /\ header' = IF outcome = "handleDimensionInput"
                       THEN [header EXCEPT !.dimension = Join(trimmed)]
                       ELSE header
          /\ lastOp' = outcome
    /\ UNCHANGED <<fields, currentConfiguration, document, cursorLine,
                   generated, parsed, extracted, pending>>

\* rpg-structure.helper.ts: isHeaderValid, on the header h; it sets the
\* hasHeader context that the generate command is offered under
isHeaderValid(h) ==
    LET hasBasicFields == h.name # "" /\ h.type # "" IN
    IF h.type = "template"
    THEN hasBasicFields /\ (Falsy(h.dimension) \/ h.dimension = "0")
    ELSE hasBasicFields /\ h.dimension # UNDEF /\ h.dimension # ""

HeaderNext ==
    \/ HandleNameInput
    \/ HandleTypeInput
    \/ HandleDimensionInput
    \/ CleanHeader
    \/ ImportStructureAtCursor
    \/ ImportFromStructureList

SpecHeader == HeaderInit /\ [][HeaderNext]_vars

-----------------------------------------------------------------------------
(* The length box of insertField: validateInput runs on every text *)

MaxLengthKeys == 4

\* lengthRequiredTypes of insertField
lengthRequiredTypes == {"char", "varchar", "int", "packed", "zoned", "uns", "bin"}

\* validateFieldLength(type, length).isValid
validateFieldLength(type, length) ==
    IF length = <<>> \/ TrimChars(length) = <<>> THEN FALSE
    ELSE LET trimmedLength == TrimChars(length) IN
         IF INTEGER_REGEX(trimmedLength) THEN TRUE
         ELSE IF type \in {"packed", "zoned"} /\ DECIMAL_REGEX(trimmedLength)
         THEN LET p == ColonOf(trimmedLength)
                  whole == NumberOf(SubSeq(trimmedLength, 1, p - 1))
                  decimal == NumberOf(SubSeq(trimmedLength, p + 1,
                                             Len(trimmedLength)))
              IN  IF decimal >= whole THEN FALSE ELSE TRUE
         ELSE FALSE

\* The box: the type chosen before it, the text in it, what validateInput
\* said of the text, and the length insertField keeps once it is accepted
LengthBox(type, input, length) ==
    [type |-> type, input |-> input,
     isValid |-> validateFieldLength(type, input), length |-> length]

PromptInit ==
    /\ currentConfiguration = DEFAULT_CONFIGURATION
    /\ header = EmptyHeader
    /\ fields = <<>>
    /\ document = <<Line(0, <<>>)>>
    /\ cursorLine = 0
    /\ generated = <<>>
    /\ parsed = <<>>
    /\ extracted = <<>>
    /\ pending = <<>>
    /\ lastOp = "init"

\* insertField reaches the length prompt with a type that requires a length
OpenLengthBox ==
    /\ \A k \in 1..Len(pending) : pending[k].length # UNDEF
    /\ \E type \in lengthRequiredTypes :
          pending' = <<LengthBox(type, <<>>, UNDEF)>>
    /\ lastOp' = "showInputBox"
    /\ UNCHANGED <<header, fields, currentConfiguration, document, cursorLine,
                   generated, parsed, extracted>>

\* A key is typed: validateInput runs on the new text
TypeLengthKey ==
    /\ pending # <<>> /\ pending[1].length = UNDEF
    /\ Len(pending[1].input) < MaxLengthKeys
    /\ \E c \in KeyChars :
          pending' = <<LengthBox(pending[1].type,
                                 Append(pending[1].input, c), UNDEF)>>
    /\ lastOp' = "validateInput"
    /\ UNCHANGED <<header, fields, currentConfiguration, document, cursorLine,
                   generated, parsed, extracted>>

\* The last key is erased: validateInput runs on the new text
EraseLengthKey ==
    /\ pending # <<>> /\ pending[1].length = UNDEF
    /\ pending[1].input # <<>>
    /\ pending' = <<LengthBox(pending[1].type,
                               SubSeq(pending[1].input, 1,
                                      Len(pending[1].input) - 1), UNDEF)>>
    /\ lastOp' = "validateInput"
    /\ UNCHANGED <<header, fields, currentConfiguration, document, cursorLine,
                   generated, parsed, extracted>>

\* Enter, which the box takes only when validateInput has no message:
\* length = lengthInput.trim()
AcceptLength ==
    /\ pending # <<>> /\ pending[1].length = UNDEF
    /\ pending[1].isValid
    /\ pending' = <<LengthBox(pending[1].type, pending[1].input,
                               Join(TrimChars(pending[1].input)))>>
    /\ lastOp' = "length accepted"
    /\ UNCHANGED <<header, fields, currentConfiguration, document, cursorLine,
                   generated, parsed, extracted>>

\* Escape: lengthInput is undefined and the length stays undefined
DismissLength ==
    /\ pending # <<>> /\ pending[1].length = UNDEF
    /\ pending' = <<>>
    /\ lastOp' = "length dismissed"
    /\ UNCHANGED <<header, fields, currentConfiguration, document, cursorLine,
                   generated, parsed, extracted>>

PromptNext ==
    \/ OpenLengthBox
    \/ TypeLengthKey
    \/ EraseLengthKey
    \/ AcceptLength
    \/ DismissLength

SpecPrompt == PromptInit /\ [][PromptNext]_vars

-----------------------------------------------------------------------------
(* parseFields step by step: one action per turn of its while loop.  The   *)
(* calls of parseFields in progress are kept in pending, the innermost     *)
(* last: lines lo to hi - 1 of the document are the slice the call was     *)
(* given, i is the line its loop is at, owner the aggregate whose children *)
(* the call parses (none for the outermost call).                          *)

Frame(lo, hi, idCounter, flds, owner, format) ==
    [lo |-> lo, hi |-> hi, i |-> lo, idCounter |-> idCounter, fields |-> flds,
     owner |-> owner, format |-> format]

\* The slice a call was given
SliceOf(f) == SubSeq(document, f.lo + 1, f.hi)

\* The documents the loop is run on
LoopDocuments ==
    SubstructureDocuments
      \cup {GeneratedDocument(f) :
               f \in UNION {ForestsOfSize(n) : n \in 0..MaxParseNodes}}
      \cup {NestedExample, UnknownTypeExample, StrayCloseExample,
            UnnamedNestedExample}

LoopInit ==
    /\ currentConfiguration = DEFAULT_CONFIGURATION
    /\ header = EmptyHeader
    /\ fields = <<>>
    /\ document \in LoopDocuments
    /\ cursorLine \in 0..(Len(document) - 1)
    /\ generated = <<>>
    /\ parsed = <<>>
    /\ extracted = <<>>
    /\ pending = <<>>
    /\ lastOp = "init"

\* parseStructureAtCursor up to its call of parseFields
StartParseFields ==
    /\ lastOp = "init"
    /\ \E boundaries \in {findStructureBoundaries(document, cursorLine)} :
          IF boundaries = <<>>
          THEN /\ pending' = <<>>
               /\ parsed' = <<EmptyResult(<<"No RPG structure found at cursor position">>)>>
               /\ lastOp' = "parseStructureAtCursor failed"
          ELSE /\ pending' = <<Frame(boundaries[1].startLine + 1, boundaries[1].endLine,
                                     0, <<>>, <<>>,
                                     detectFormat(boundaries[1].headerMatch.keyword))>>
               /\ parsed' = <<>>
               /\ lastOp' = "parseFields"
    /\ UNCHANGED <<header, fields, currentConfiguration, document, cursorLine,
                   generated, extracted>>

\* The innermost call, and the stack with that call replaced
TopFrame == pending[Len(pending)]

WithTop(f) == [pending EXCEPT ![Len(pending)] = f]

\* The loop is at a line of its slice
InLoop == pending # <<>> /\ TopFrame.i < TopFrame.hi

\* A turn on a blank line, a comment, or a line no pattern matches: i++
SkipLine ==
    /\ InLoop
    /\ \E line \in {document[TopFrame.i + 1]} :
       \E matched \in {/\ ~BlankOrComment(line)
                       /\ \/ STRUCTURE_START_PATTERN(line).ok
                          \/ SUBSTRUCTURE_START_PATTERN(line).ok
                          \/ FIELD_PATTERN(line).ok} :
          /\ ~matched
          /\ pending' = WithTop([TopFrame EXCEPT !.i = @ + 1])
    /\ lastOp' = "skip"
    /\ UNCHANGED <<header, fields, currentConfiguration, document, cursorLine,
                   generated, parsed, extracted>>

\* A turn on an open line: parseNestedStructure looks for the close; without
\* one the turn ends with i++, else parseFields is called on the lines
\* between and the loop will resume after the close
NestedTurn ==
    /\ InLoop
    /\ \E f \in {TopFrame} :
       \E line \in {document[f.i + 1]} :
       \E match \in {STRUCTURE_START_PATTERN(line)} :
       \E endIndex \in {FindNestedEnd(SliceOf(f), f.i - f.lo + 1, 0)} :
          /\ ~BlankOrComment(line) /\ match.ok
          /\ IF endIndex = NotFound
             THEN pending' = WithTop([f EXCEPT !.i = @ + 1, !.idCounter = @ + 1])
             ELSE pending' =
                    Append(WithTop([f EXCEPT !.i = f.lo + endIndex + 1,
                                             !.idCounter = @ + 1]),
                           Frame(f.i + 1, f.lo + endIndex, 0, <<>>,
                                 <<Field(f.idCounter, match.name, "",
                                         IF DimMatch(match.modifiers).ok
                                         THEN Join(DimMatch(match.modifiers).value)
                                         ELSE UNDEF,
                                         UNDEF, <<>>, TRUE, <<>>)>>,
                                 f.format))
    /\ lastOp' = "parseNestedStructure"
    /\ UNCHANGED <<header, fields, currentConfiguration, document, cursorLine,
                   generated, parsed, extracted>>

\* A turn on a substructure line: parseSubstructure looks for the end,
\* parseFields is called on the lines before it and the loop will resume at it
SubstructureTurn ==
    /\ InLoop
    /\ \E f \in {TopFrame} :
       \E line \in {document[f.i + 1]} :
       \E match \in {SUBSTRUCTURE_START_PATTERN(line)} :
       \E endIndex \in {FindSubstructureEnd(SliceOf(f), f.i - f.lo + 1,
                                             getIndentLevel(line), f.i - f.lo + 1)} :
          /\ ~BlankOrComment(line)
          /\ ~STRUCTURE_START_PATTERN(line).ok /\ match.ok
          /\ pending' =
                Append(WithTop([f EXCEPT !.i = f.lo + endIndex,
                                         !.idCounter = @ + 1]),
                       Frame(f.i + 1, f.lo + endIndex, 0, <<>>,
                             <<Field(f.idCounter, match.name, "",
                                     GroupText(match.dimension),
                                     UNDEF, <<>>, TRUE, <<>>)>>,
                             f.format))
    /\ lastOp' = "parseSubstructure"
    /\ UNCHANGED <<header, fields, currentConfiguration, document, cursorLine,
                   generated, parsed, extracted>>

\* A turn on a field line: the field is pushed, i++
FieldTurn ==
    /\ InLoop
    /\ \E f \in {TopFrame} :
       \E line \in {document[f.i + 1]} :
       \E fieldMatch \in {FIELD_PATTERN(line)} :
       \E field \in (IF fieldMatch.ok
                     THEN {parseFieldFromMatch(fieldMatch, f.idCounter, f.format)}
                     ELSE {}) :
          /\ ~BlankOrComment(line)
          /\ ~STRUCTURE_START_PATTERN(line).ok
          /\ ~SUBSTRUCTURE_START_PATTERN(line).ok
          /\ pending' = WithTop([f EXCEPT !.i = @ + 1, !.idCounter = @ + 1,
                                          !.fields = Append(@, field)])
    /\ lastOp' = "parseFieldFromMatch"
    /\ UNCHANGED <<header, fields, currentConfiguration, document, cursorLine,
                   generated, parsed, extracted>>

\* The loop of the innermost call ends: its fields become the children of
\* its owner, pushed by the call below, or the fields of the result, which
\* parseStructureAtCursor returns with the header and success = true
ReturnFields ==
    /\ pending # <<>> /\ TopFrame.i >= TopFrame.hi
    /\ \E f \in {TopFrame} :
       \E below \in {SubSeq(pending, 1, Len(pending) - 1)} :
          IF below = <<>>
          THEN /\ pending' = <<>>
               /\ parsed' = <<ParsedStructure(
                                parseHeader(findStructureBoundaries(
                                                document, cursorLine)[1].headerMatch),
                                f.fields, f.format, TRUE, <<>>)>>
               /\ lastOp' = "parseFields returned"
          ELSE /\ pending' =
                    [below EXCEPT ![Len(below)].fields =
                        Append(@, [f.owner[1] EXCEPT !.fields = f.fields])]
               /\ parsed' = parsed
               /\ lastOp' = "return"
    /\ UNCHANGED <<header, fields, currentConfiguration, document, cursorLine,
                   generated, extracted>>

LoopNext ==
    \/ StartParseFields
    \/ SkipLine
    \/ NestedTurn
    \/ SubstructureTurn
    \/ FieldTurn
    \/ ReturnFields

SpecLoop == LoopInit /\ [][LoopNext]_vars

-----------------------------------------------------------------------------
(* The exported functions, called with arguments of the caller's own *)

\* The params handed to generateRpgCode: names that are empty or blank,
\* fields that are no array, a child that cannot be rendered, and an
\* aggregate that holds a field, under a name that the name prompts accept
\* (FIELD_NAME_REGEX admits the letter ñ as well)
ApiParams ==
    LET NamedAggregateForests ==
            {<<Field(0, name, "", UNDEF, UNDEF, <<>>, TRUE,
                     <<Field(1, "a", "char", "5", UNDEF, <<>>, FALSE, <<>>)>>)>> :
                name \in {"g", "ñ"}}
    IN  {RpgCodeParams(name, "Default", dimension, flds, 0, 0, 0) :
            name \in {"s", "", " "},
            dimension \in {UNDEF, "5"},
            flds \in {NotAnArray, <<>>,
                      <<Field(0, "a", "char", "5", UNDEF, <<>>, FALSE, <<>>)>>,
                      <<Field(0, UNDEF, "char", "5", UNDEF, <<>>, FALSE, <<>>),
                        Field(1, "a", "char", "5", UNDEF, <<>>, FALSE, <<>>)>>}
                       \cup NamedAggregateForests}

ApiInit ==
    /\ currentConfiguration \in GenConfigurations
    /\ header = EmptyHeader
    /\ fields = <<>>
    /\ document = <<Line(0, <<>>)>>
    /\ cursorLine = 0
    /\ generated = <<>>
    /\ parsed = <<>>
    /\ extracted = <<>>
    /\ pending = <<>>
    /\ lastOp = "init"

\* generateRpgCode(params)
CallGenerateRpgCode ==
    /\ \E params \in ApiParams :
       \E r \in {generateRpgCode(params)} :
           generated' = <<[params |-> params, ok |-> r.ok, text |-> r.text]>>
    /\ lastOp' = "generateRpgCode"
    /\ UNCHANGED <<header, fields, currentConfiguration, document, cursorLine,
                   parsed, extracted, pending>>

\* getFormatConfig(currentConfiguration.structureFormat)
CallGetFormatConfig ==
    /\ lastOp' = IF getFormatConfig(currentConfiguration.structureFormat).ok
                 THEN "getFormatConfig"
                 ELSE "getFormatConfig threw"
    /\ UNCHANGED <<header, fields, currentConfiguration, document, cursorLine,
                   generated, parsed, extracted, pending>>

\* The field lists handed to validateParsedStructure: complete ones, and
\* ones with a field without name or without type, first or last, at depth
\* one, two or three; an aggregate needs no type
ValidateForests ==
    LET leaf(name, type) == Field(0, name, type, "5", UNDEF, <<>>, FALSE, <<>>)
        agg(name, type, children) ==
            Field(0, name, type, UNDEF, UNDEF, <<>>, TRUE, children)
    IN  {<<>>,
         <<leaf("a", "char")>>,
         <<leaf("", "char")>>,
         <<leaf("a", "")>>,
         <<leaf("a", UNDEF)>>,
         <<agg("g", "", <<leaf("a", "char")>>)>>,
         <<agg("", "", <<leaf("a", "char")>>)>>,
         <<agg("g", "", <<leaf("", "char")>>)>>,
         <<agg("g", "", <<agg("h", UNDEF, <<leaf("a", "")>>)>>)>>,
         <<agg("g", "", <<agg("h", UNDEF, <<leaf("a", "char")>>)>>)>>,
         <<leaf("a", "char"),
           agg("g", "", <<leaf("b", "char"), leaf(UNDEF, "char")>>)>>,
         <<leaf("a", "char"),
           agg("g", "", <<leaf("b", "char"), agg("h", "", <<>>)>>)>>}

\* The results handed to validateParsedStructure: every field list under a
\* complete header in each convention, and a complete and an incomplete
\* field list under a result that failed, a header without name or without
\* kind, and a convention that is none of the three
ValidateInputs ==
    LET hdr(name, type) == [name |-> name, type |-> type, dimension |-> "0"]
        complete == <<Field(0, "a", "char", "5", UNDEF, <<>>, FALSE, <<>>)>>
        incomplete == <<Field(0, "a", "", "5", UNDEF, <<>>, FALSE, <<>>)>>
    IN  {ParsedStructure(hdr("s", "Default"), flds, format, TRUE, <<>>) :
            flds \in ValidateForests, format \in StructureFormats}
        \cup
        UNION {{ParsedStructure(hdr("s", "Default"), flds, "Dcl-ds", FALSE, <<>>),
                ParsedStructure(hdr("", "Default"), flds, "Dcl-ds", TRUE, <<>>),
                ParsedStructure(hdr("s", ""), flds, "Dcl-ds", TRUE, <<>>),
                ParsedStructure(hdr("s", "Default"), flds, "dcl-pr", TRUE, <<>>)} :
               flds \in {complete, incomplete}}

\* validateParsedStructure(parsed)
CallValidateParsedStructure ==
    /\ \E p \in ValidateInputs :
          /\ parsed' = <<p>>
          /\ lastOp' = IF validateParsedStructure(p)
                       THEN "validateParsedStructure accepted"
                       ELSE "validateParsedStructure rejected"
    /\ UNCHANGED <<header, fields, currentConfiguration, document, cursorLine,
                   generated, extracted, pending>>

ApiNext ==
    \/ CallGenerateRpgCode
    \/ CallGetFormatConfig
    \/ CallValidateParsedStructure

SpecApi == ApiInit /\ [][ApiNext]_vars

-----------------------------------------------------------------------------
(* Vocabulary of the properties *)

ImportOutcomes == {"import", "import failed", "import invalid", "import declined"}

\* A forest with every id set to 0: its shape, order, names, type tags,
\* lengths, inits and repeat counts
RECURSIVE StripIds(_)
StripIds(flds) ==
    [k \in 1..Len(flds) |->
        [flds[k] EXCEPT !.idNumber = 0, !.fields = StripIds(flds[k].fields)]]

StrictlyIncreasing(ids) ==
    \A i \in 1..Len(ids) : \A j \in 1..Len(ids) : i < j => ids[i] < ids[j]

PairwiseDistinct(ids) ==
    \A i \in 1..Len(ids) : \A j \in 1..Len(ids) : i # j => ids[i] # ids[j]

\* A dimension that is absent, empty or zero
NoDimension(d) == d \in {UNDEF, "", "0"}

SameDimension(d, e) == d = e \/ (NoDimension(d) /\ NoDimension(e))

WellFormedName(n) == n \notin {UNDEF, "", " "} /\ IsIdentifier(n)

RECURSIVE WellFormedForest(_)
WellFormedForest(flds) ==
    \A k \in 1..Len(flds) :
        /\ WellFormedName(flds[k].name)
        /\ IF flds[k].isStructure
           THEN flds[k].type = "" /\ WellFormedForest(flds[k].fields)
           ELSE flds[k].type \in TypeTags /\ flds[k].fields = <<>>

WellFormedHeader(name, type, dimension) ==
    /\ WellFormedName(name)
    /\ type \in StructureTypes
    /\ type = "template" => NoDimension(dimension)
    /\ type \in {"*var", "*auto"} => ~NoDimension(dimension)

WellFormedParams(params) ==
    /\ WellFormedHeader(params.name, params.type, params.dimension)
    /\ WellFormedForest(params.fields)

\* The completed spans of a document, as a set
CompletedSpans(lines) ==
    LET all == findAllStructureBoundaries(lines) IN {all[k] : k \in 1..Len(all)}

Contains(span, c) == span.startLine <= c /\ c <= span.endLine

OnEdge(span, c) == c = span.startLine \/ c = span.endLine

StrictlyInside(inner, outer) ==
    outer.startLine < inner.startLine /\ inner.endLine < outer.endLine

\* The names of the aggregates of a forest, at every depth
RECURSIVE AggregateNames(_)
AggregateNames(flds) ==
    IF flds = <<>> THEN {}
    ELSE (IF Head(flds).isStructure THEN {Head(flds).name} ELSE {})
           \cup AggregateNames(Head(flds).fields)
           \cup AggregateNames(Tail(flds))

\* The number of levels of a forest
RECURSIVE ForestDepth(_)
ForestDepth(flds) ==
    IF flds = <<>> THEN 0
    ELSE LET here == 1 + ForestDepth(Head(flds).fields)
             rest == ForestDepth(Tail(flds))
         IN  IF here > rest THEN here ELSE rest

\* The line on which the open line before line i finds its close, counting
\* opens and closes from depth on, or NotFound
RECURSIVE MatchingClose(_, _, _)
MatchingClose(lines, i, depth) ==
    IF i >= Len(lines) THEN NotFound
    ELSE IF STRUCTURE_START_PATTERN(lines[i + 1]).ok
    THEN MatchingClose(lines, i + 1, depth + 1)
    ELSE IF STRUCTURE_END_PATTERN(lines[i + 1])
    THEN IF depth = 1 THEN i ELSE MatchingClose(lines, i + 1, depth - 1)
    ELSE MatchingClose(lines, i + 1, depth)

\* Line c is an open line that no close line matches
UnmatchedOpen(lines, c) ==
    /\ STRUCTURE_START_PATTERN(lines[c + 1]).ok
    /\ MatchingClose(lines, c + 1, 1) = NotFound

\* The result parseStructureAtCursor gives when it fails
FailedResult(p) ==
    /\ ~p.success
    /\ p.errors # <<>>
    /\ p.header = EmptyHeader
    /\ p.fields = <<>>

\* The rendering of a child throws: an aggregate whose name is missing,
\* empty or blank, a leaf whose name is missing
ChildFails(field) ==
    IF field.isStructure
    THEN Falsy(field.name) \/ field.name \in BlankStrings
    ELSE field.name = UNDEF

\* A line of the form "// ..."
IsMarker(line) == line.toks # <<>> /\ line.toks[1] = "//"

\* The lines of child number index of params.fields when it renders
RenderedChild(params, index) ==
    LET field == params.fields[index + 1] IN
    IF field.isStructure
    THEN generateRpgCode(RpgCodeParams(field.name, "Default", field.length,
                                       field.fields, params.line + index + 1,
                                       params.level + 1, params.baseIndent)).text
    ELSE <<generateFieldLine(field,
               calculateIndentation(params.line, params.level,
                                    params.baseIndent).subIndent).line>>

\* From line pos on, text holds for every child from number index on its
\* rendering, or one marker line when it fails, and then one last line
RECURSIVE BodyMatches(_, _, _, _)
BodyMatches(params, index, text, pos) ==
    IF index >= Len(params.fields) THEN pos = Len(text)
    ELSE IF ChildFails(params.fields[index + 1])
    THEN /\ pos < Len(text)
         /\ IsMarker(text[pos])
         /\ BodyMatches(params, index + 1, text, pos + 1)
    ELSE LET r == RenderedChild(params, index) IN
         /\ pos + Len(r) <= Len(text)
         /\ SubSeq(text, pos, pos + Len(r) - 1) = r
         /\ \A k \in 1..Len(r) : IsMarker(r[k]) => params.fields[index + 1].isStructure
         /\ BodyMatches(params, index + 1, text, pos + Len(r))

\* The top-level call passes its validation and finds its format
TopLevelValid(params) ==
    /\ WellFormedName(params.name)
    /\ params.type \in StructureTypes
    /\ IsArray(params.fields)
    /\ currentConfiguration.structureFormat \in StructureFormats

\* The failures of the top-level call the claim names
TopLevelInvalid(params) ==
    \/ params.name \in {"", UNDEF} \cup BlankStrings
    \/ ~IsArray(params.fields)
    \/ currentConfiguration.structureFormat \notin StructureFormats

\* The session generated text T from a well-formed input into the empty
\* document, and then imported it with the cursor on the first line
ImportedGenerated ==
    /\ lastOp \in ImportOutcomes
    /\ generated # <<>>
    /\ generated[1].ok
    /\ document = generated[1].text
    /\ cursorLine = 0
    /\ currentConfiguration.structureFormat \in StructureFormats
    /\ WellFormedParams(generated[1].params)

-----------------------------------------------------------------------------
(* C1.  Round trip, generate then parse: parsing the text generateRpgCode  *)
(* made from a well-formed header and forest, with the cursor on the first *)
(* line, succeeds with the same header name, kind and dimension, the same  *)
(* format and a forest equal to the input up to ids, and the ids of the    *)
(* parsed forest are strictly increasing in preorder.                      *)
C1_RoundTripGenerateParse ==
    ImportedGenerated =>
        /\ parsed[1].success
        /\ parsed[1].header.name = generated[1].params.name
        /\ parsed[1].header.type = generated[1].params.type
        /\ SameDimension(parsed[1].header.dimension, generated[1].params.dimension)
        /\ parsed[1].format = currentConfiguration.structureFormat
        /\ StripIds(parsed[1].fields) = StripIds(generated[1].params.fields)
        /\ StrictlyIncreasing(PreorderIds(parsed[1].fields))

-----------------------------------------------------------------------------
(* C2.  Round trip, parse then generate: when the text T generated from a  *)
(* well-formed input has been imported, generating again from the imported *)
(* header and fields under the same format, indent unit and base           *)
(* indentation yields exactly T, headers without a dimension clause        *)
(* included.                                                               *)
C2_RoundTripParseGenerate ==
    [][(ImportedGenerated /\ lastOp = "import" /\ lastOp' = "generate") =>
          /\ generated'[1].ok
          /\ generated'[1].text = generated[1].text]_vars

-----------------------------------------------------------------------------
(* C3.  Cursor selection: an import at cursor line c works on (a) the span *)
(* whose start line or end line is c, nested or not, (b) the innermost     *)
(* span containing c when c is on no start or end line, and (c) no span    *)
(* when no completed span contains c.                                      *)
C3_CursorSelection ==
    lastOp \in ImportOutcomes =>
        LET spans == CompletedSpans(document)
            around == {x \in spans : Contains(x, cursorLine)}
            edge == {x \in spans : OnEdge(x, cursorLine)}
            sel == findStructureBoundaries(document, cursorLine)
        IN  /\ \A x \in edge : sel = <<x>>
            /\ (edge = {} /\ around # {}) =>
                  \E x \in around :
                      /\ sel = <<x>>
                      /\ \A y \in around \ {x} :
                            y.level < x.level /\ StrictlyInside(x, y)
            /\ around = {} => sel = <<>>
            /\ parsed[1].success <=> sel # <<>>
            /\ sel # <<>> => parsed[1] = StructureOf(document, sel[1])

\* The import worked on the nested declaration of lines 3 to 7 with the
\* cursor on its end line, inside the declaration of lines 0 to 10
C3_Witness ==
    /\ lastOp = "import"
    /\ document = NestedExample
    /\ cursorLine = 7
    /\ parsed[1].header.name = "g"
    /\ header.name = "g"

-----------------------------------------------------------------------------
(* C4.  Whole-document extraction reports no nested aggregate as a result  *)
(* of its own: the results are those of the spans of level 0, none of      *)
(* which lies inside another completed span; no span that lies inside      *)
(* another is a result, and the aggregate Fields of a result are the       *)
(* aggregates declared inside its span.  A document with one aggregate     *)
(* holding one aggregate holding one field gives one result of depth 3.    *)
C4_ExtractTopLevelOnly ==
    extracted # <<>> =>
        LET spans == CompletedSpans(document)
            top == SelectSeq(findAllStructureBoundaries(document),
                             LAMBDA x : x.level = 0)
            results == extracted[1]
        IN  /\ Len(results) = Len(top)
            /\ \A k \in 1..Len(top) :
                  /\ results[k] = StructureOf(document, top[k])
                  /\ \A y \in spans : ~StrictlyInside(top[k], y)
                  /\ \A y \in spans :
                        (\E z \in spans : StrictlyInside(y, z)) => top[k] # y
                  /\ AggregateNames(results[k].fields) \subseteq
                        {y.headerMatch.name :
                            y \in {z \in spans : StrictlyInside(z, top[k])}}
                        \cup {SUBSTRUCTURE_START_PATTERN(document[n]).name :
                                 n \in (top[k].startLine + 2)..top[k].endLine}
            /\ document = NestedOnce =>
                  /\ Len(results) = 1
                  /\ 1 + ForestDepth(results[1].fields) = 3

\* The list import took the one result of the document in which s holds g
\* and g holds a field
C4_Witness ==
    /\ lastOp = "list import"
    /\ document = NestedOnce
    /\ Len(extracted[1]) = 1
    /\ AggregateNames(fields) = {"g"}

-----------------------------------------------------------------------------
(* C5.  The ids one parse assigns are unique in the whole tree: the Fields *)
(* of the forest parseStructureAtCursor returns, and of every entry of     *)
(* extractAllStructures, carry pairwise distinct ids at all depths, given  *)
(* in preorder by one counter.                                             *)
C5_ParsedIdsUnique ==
    /\ parsed # <<>> =>
          /\ PairwiseDistinct(PreorderIds(parsed[1].fields))
          /\ StrictlyIncreasing(PreorderIds(parsed[1].fields))
    /\ extracted # <<>> =>
          \A k \in 1..Len(extracted[1]) :
              /\ PairwiseDistinct(PreorderIds(extracted[1][k].fields))
              /\ StrictlyIncreasing(PreorderIds(extracted[1][k].fields))

-----------------------------------------------------------------------------
(* C8.  parseStructureAtCursor fails, with success false, a non-empty      *)
(* errors list, the empty header and no fields, exactly when no completed  *)
(* span contains the cursor line; on an open line without a matching close *)
(* it always fails, and inside a completed span it succeeds whatever opens *)
(* are left unbalanced elsewhere.                                          *)
C8_FailsExactlyWhenNoSpan ==
    lastOp \in ImportOutcomes =>
        LET around == {x \in CompletedSpans(document) : Contains(x, cursorLine)}
        IN  /\ around = {} <=> FailedResult(parsed[1])
            /\ around # {} <=> parsed[1].success
            /\ UnmatchedOpen(document, cursorLine) => FailedResult(parsed[1])

\* The import failed with the cursor on an open line that has no close,
\* in a document that holds a completed span as well
C8_Witness ==
    /\ lastOp = "import failed"
    /\ UnmatchedOpen(document, cursorLine)
    /\ CompletedSpans(document) # {}
    /\ FailedResult(parsed[1])

-----------------------------------------------------------------------------
(* C6.  In every state of the editing session, reached from the empty tree *)
(* by adding fields and substructures, adding to a substructure, deleting, *)
(* cleaning and importing at the cursor or from the list, the ids of all   *)
(* nodes of the Field Tree are pairwise distinct.                          *)
C6_SessionIdsDistinct == PairwiseDistinct(PreorderIds(fields))

-----------------------------------------------------------------------------
(* C7.  Right after addFieldBefore, after an addFieldStructure that found  *)
(* its aggregate and after a deleteField that deleted, the preorder        *)
(* traversal of the Field Tree reads the ids 0, 1, ..., n-1, n the number  *)
(* of nodes, whatever the ids were before.                                 *)
C7_PreorderIdsAfterMutation ==
    lastOp \in {"addFieldBefore", "addFieldStructure", "deleteField"} =>
        PreorderIds(fields) = [k \in 1..CountNodes(fields) |-> k - 1]

\* A field was attached to the aggregate g of an imported tree, in which g
\* and its child both had the id 0
C7_Witness ==
    /\ lastOp = "addFieldStructure"
    /\ header.name = "s"
    /\ AggregateNames(fields) = {"g"}
    /\ Len(fields) = 1
    /\ Len(fields[1].fields) = 2

-----------------------------------------------------------------------------
(* C9.  A failure while rendering one child of an aggregate does not abort *)
(* the generation: the call returns text, with the open line first and the *)
(* close line last, and between them, in the order of the children, one    *)
(* comment marker line for every child that failed and the rendering of    *)
(* every other child.                                                      *)
C9_ChildFailureIsolated ==
    (generated # <<>> /\ TopLevelValid(generated[1].params)) =>
        LET params == generated[1].params
            text == generated[1].text
            ind == calculateIndentation(params.line, params.level, params.baseIndent)
        IN  /\ generated[1].ok
            /\ Len(text) >= 2
            /\ text[1] = generateStructureHeader(params.name, params.type,
                             params.dimension, params.level, params.line,
                             ind.headIndent).line
            /\ text[Len(text)] = generateStructureFooter(ind.headIndent).line
            /\ ~IsMarker(text[1]) /\ ~IsMarker(text[Len(text)])
            /\ BodyMatches(params, 0, text, 2)

\* The generate command wrote a declaration in which one child is a marker
\* line and another child is rendered
C9_Witness ==
    /\ lastOp = "generate"
    /\ generated[1].ok
    /\ document = generated[1].text
    /\ \E k \in 1..Len(fields) : ChildFails(fields[k])
    /\ \E k \in 1..Len(fields) : ~ChildFails(fields[k])
    /\ \E k \in 2..(Len(document) - 1) : IsMarker(document[k])

-----------------------------------------------------------------------------
-----------------------------------------------------------------------------
(* Vocabulary of the properties of generated text *)

\* A line that opens, and a line that closes, an aggregate
IsOpenLine(line) == line.toks # <<>> /\ LowerCase(line.toks[1]) = "dcl-ds"

IsCloseLine(line) == line.toks # <<>> /\ LowerCase(line.toks[1]) = "end-ds"

\* A line that declares a leaf field
IsFieldLine(line) ==
    line.toks # <<>> /\ ~IsOpenLine(line) /\ ~IsCloseLine(line) /\ ~IsMarker(line)

HasToken(line, w) == \E i \in 1..Len(line.toks) : line.toks[i] = w

\* The number of aggregates open before line k of text (lines count from 1)
DepthAt(text, k) ==
    Cardinality({j \in 1..(k - 1) : IsOpenLine(text[j])})
      - Cardinality({j \in 1..(k - 1) : IsCloseLine(text[j])})

\* The lexemes of a line from its dim keyword to the parenthesis that closes
\* the clause, <<>> when the line has no dim keyword
DimClauseOf(line) ==
    LET toks == line.toks
        IsDim(i) == LowerCase(toks[i]) = "dim"
    IN  IF \E i \in 1..Len(toks) : IsDim(i)
        THEN LET i == CHOOSE i \in 1..Len(toks) :
                          IsDim(i) /\ \A j \in 1..(i - 1) : ~IsDim(j)
             IN  SubSeq(toks, i, FirstIndex(toks, i, ")"))
        ELSE <<>>

\* A dimension that is supplied and not empty
Supplied(d) == d \notin {UNDEF, ""} \cup BlankStrings

\* The aggregates of a forest that are rendered, in preorder, with their
\* nesting depth below a parent of depth - 1
RECURSIVE RenderedAggregates(_, _)
RenderedAggregates(flds, depth) ==
    IF flds = <<>> THEN <<>>
    ELSE LET f == Head(flds) IN
         (IF f.isStructure /\ ~ChildFails(f)
          THEN <<[depth |-> depth, field |-> f]>>
                 \o RenderedAggregates(f.fields, depth + 1)
          ELSE <<>>)
           \o RenderedAggregates(Tail(flds), depth)

\* The numbers of the open lines of text after the first line, in order
NestedOpenLines(text) ==
    SelectSeq([k \in 1..Len(text) |-> k],
              LAMBDA k : k >= 2 /\ IsOpenLine(text[k]))

\* The generate command or generateRpgCode returned text
GeneratedText == generated # <<>> /\ generated[1].ok

-----------------------------------------------------------------------------
(* C11.  In generated text the qualified keyword stands on the open line   *)
(* of the level-0 aggregate, the first line, and on no other line: no open *)
(* line of a nested aggregate carries it, at any depth.  The template      *)
(* keyword stands on the first line only, and only when the kind of the    *)
(* header is template.                                                     *)
C11_QualifiedAndTemplateAtTopOnly ==
    GeneratedText =>
        LET text == generated[1].text
            format == FORMAT_MAP[currentConfiguration.structureFormat]
        IN  \A k \in 1..Len(text) :
                /\ (IsOpenLine(text[k]) /\ DepthAt(text, k) = 0) <=> k = 1
                /\ HasToken(text[k], format.qualified) <=> k = 1
                /\ HasToken(text[k], format.template)
                     <=> (k = 1 /\ generated[1].params.type = "template")

\* The generate command wrote a template whose text holds an open line two
\* levels below the top
C11_Witness ==
    /\ lastOp = "generate"
    /\ GeneratedText
    /\ document = generated[1].text
    /\ header.type = "template"
    /\ \E k \in 1..Len(document) :
          IsOpenLine(document[k]) /\ DepthAt(document, k) = 2

-----------------------------------------------------------------------------
(* C12.  The dimension clause of an open line is determined by the kind.   *)
(* On the first line, for a supplied dimension d that is not empty, kind   *)
(* Default gives dim(d), kind *var gives dim with *var:d in parentheses,   *)
(* kind *auto gives dim with *auto:d in parentheses, the keywords being in *)
(* the spelling of the format, and kind template gives no                  *)
(* dimension clause whatever d is.  The open line of a nested aggregate is *)
(* rendered as Default with the length of the aggregate field as d: it     *)
(* reads dim(length) when the length is supplied and has no clause when    *)
(* it is not.                                                              *)
C12_DimensionClauseByKind ==
    GeneratedText =>
        LET text == generated[1].text
            params == generated[1].params
            format == FORMAT_MAP[currentConfiguration.structureFormat]
            d == params.dimension
            nested == RenderedAggregates(params.fields, 1)
            opens == NestedOpenLines(text)
        IN  /\ (Supplied(d) /\ params.type = "Default") =>
                  DimClauseOf(text[1]) = <<format.dimx, "(", d, ")">>
            /\ (Supplied(d) /\ params.type = "*var") =>
                  DimClauseOf(text[1]) = <<format.dimx, "(", format.varx, ":", d, ")">>
            /\ (Supplied(d) /\ params.type = "*auto") =>
                  DimClauseOf(text[1]) = <<format.dimx, "(", format.autox, ":", d, ")">>
            /\ params.type = "template" => DimClauseOf(text[1]) = <<>>
            /\ Len(opens) = Len(nested)
            /\ \A j \in 1..Len(opens) :
                  LET line == text[opens[j]]
                      field == nested[j].field
                  IN  /\ line.toks[3] = field.name
                      /\ DepthAt(text, opens[j]) = nested[j].depth
                      /\ DimClauseOf(line) =
                           IF Supplied(field.length)
                           THEN <<format.dimx, "(", field.length, ")">>
                           ELSE <<>>
                      /\ ~HasToken(line, format.varx)
                      /\ ~HasToken(line, format.autox)

\* The generate command wrote a *var structure with the dimension 5 around
\* the aggregate g, which has no length, and the aggregate h of length 2
C12_Witness ==
    /\ lastOp = "generate"
    /\ GeneratedText
    /\ header.type = "*var"
    /\ header.dimension = "5"
    /\ fields = DeepForest
    /\ Len(NestedOpenLines(generated[1].text)) = 2

-----------------------------------------------------------------------------
TypeMapsAgree ==
    /\ Cardinality(TypeTags) = 12
    /\ \A f \in DOMAIN FORMAT_MAP :
          /\ DOMAIN FORMAT_MAP[f].typeMap = TypeTags
          /\ \A t \in TypeTags :
                /\ LowerCase(FORMAT_MAP[f].typeMap[t]) = LowerCase(t)
                /\ GenericType(FORMAT_MAP[f].typeMap[t], f) = t

-----------------------------------------------------------------------------
(* C14.  The three format tables are variants in spelling of one           *)
(* structure: the type maps of the three tables have the same 12 type tags *)
(* as keys, every table spells every tag as the tag itself up to case, and *)
(* for every format F and tag t the reverse lookup of the importer, given  *)
(* F's spelling of t, returns t.  So a leaf of any type tag that is        *)
(* generated in a format and imported again has its type tag back.         *)
C14_FormatTablesSpellingOnly ==
    /\ TypeMapsAgree
    /\ (/\ ImportedGenerated
        /\ lastOp = "import"
        /\ Len(generated[1].params.fields) = 1
        /\ ~generated[1].params.fields[1].isStructure) =>
          LET t == generated[1].params.fields[1].type
              f == currentConfiguration.structureFormat
          IN  /\ document[2].toks[3] = FORMAT_MAP[f].typeMap[t]
              /\ Len(parsed[1].fields) = 1
              /\ parsed[1].fields[1].type = t

\* The import read the line of a timestamp field written in the format
\* Dcl-ds and gave the field the type tag timestamp
C14_Witness ==
    /\ lastOp = "import"
    /\ ImportedGenerated
    /\ currentConfiguration.structureFormat = "Dcl-ds"
    /\ Len(document) = 3
    /\ HasToken(document[2], "Timestamp")
    /\ Len(fields) = 1
    /\ fields[1].type = "timestamp"

-----------------------------------------------------------------------------
(* C15.  Every Field that is no aggregate, in a result of the importer     *)
(* with success true and so in the Field Tree of the session after an      *)
(* import, has one of the 12 type tags as its type and no children; every  *)
(* aggregate Field has the empty type.                                     *)
C15_ParsedTypeTagsCanonical ==
    LET Canonical(flds) ==
            \A f \in Nodes(flds) :
                IF f.isStructure THEN f.type = ""
                ELSE f.type \in TypeTags /\ f.fields = <<>>
    IN  /\ (parsed # <<>> /\ parsed[1].success) => Canonical(parsed[1].fields)
        /\ extracted # <<>> =>
              \A k \in 1..Len(extracted[1]) :
                  extracted[1][k].success => Canonical(extracted[1][k].fields)
        /\ lastOp \in {"import", "list import"} => Canonical(fields)

-----------------------------------------------------------------------------
(* C16.  In every state of the session reached by setting the name, the    *)
(* type and the dimension of the header, by cleaning the header and by     *)
(* importing, a header of the type template has a dimension that is absent *)
(* or zero.                                                                *)
C16_TemplateHasNoDimension ==
    header.type = "template" => NoDimension(header.dimension)


\* C17: validateParsedStructure accepts a result exactly when success is
\* true, the header name and kind are non-empty, the format is one of the
\* three conventions, and every field at every depth has a non-empty name
\* and, unless it is an aggregate, a non-empty type; one violating field at
\* any depth makes the whole result rejected.
C17_ValidationExact ==
    lastOp \in {"validateParsedStructure accepted",
                "validateParsedStructure rejected"} =>
        LET p == parsed[1] IN
        (lastOp = "validateParsedStructure accepted") <=>
            /\ p.success = TRUE
            /\ p.header.name \notin {UNDEF, ""}
            /\ p.header.type \notin {UNDEF, ""}
            /\ p.format \in StructureFormats
            /\ \A f \in Nodes(p.fields) :
                  /\ f.name \notin {UNDEF, ""}
                  /\ ~f.isStructure => f.type \notin {UNDEF, ""}

\* A result rejected for one field only, two aggregates deep
C17_Witness ==
    /\ lastOp = "validateParsedStructure rejected"
    /\ parsed[1].success /\ parsed[1].header.name = "s"
    /\ parsed[1].header.type = "Default" /\ parsed[1].format = "Dcl-ds"
    /\ Cardinality({f \in Nodes(parsed[1].fields) :
                       f.name \in {UNDEF, ""}
                       \/ (~f.isStructure /\ f.type \in {UNDEF, ""})}) = 1
    /\ \A k \in 1..Len(parsed[1].fields) :
          /\ parsed[1].fields[k].name # ""
          /\ parsed[1].fields[k].isStructure
          /\ \A j \in 1..Len(parsed[1].fields[k].fields) :
                parsed[1].fields[k].fields[j].isStructure


\* The text is digits only and its value is positive
BarePositiveInteger(cs) ==
    /\ cs # <<>>
    /\ \A i \in 1..Len(cs) : cs[i] \in {"0", "1", "2", "3", "4", "5", "6", "7", "8", "9"}
    /\ \E i \in 1..Len(cs) : cs[i] # "0"

\* The text is whole:decimal, both of digits, with decimal < whole
SmallerDecimalPair(cs) ==
    \E p \in 2..(Len(cs) - 1) :
        /\ cs[p] = ":"
        /\ \A i \in (1..Len(cs)) \ {p} :
              cs[i] \in {"0", "1", "2", "3", "4", "5", "6", "7", "8", "9"}
        /\ NumberOf(SubSeq(cs, p + 1, Len(cs))) < NumberOf(SubSeq(cs, 1, p - 1))

\* C18: the length box accepts exactly a bare positive integer for any type
\* and a whole:decimal pair for packed and zoned with decimal < whole (the
\* text taken without the blanks around it, as the length kept is): 13:2 is
\* accepted for packed; 2:13, 5:5, a pair for another type, the empty text
\* and 0 are rejected.
C18_LengthValidation ==
    pending # <<>> =>
        LET text == TrimChars(pending[1].input) IN
        pending[1].isValid <=>
            \/ BarePositiveInteger(text)
            \/ pending[1].type \in {"packed", "zoned"} /\ SmallerDecimalPair(text)


\* C19: a generation leaves the header and every node of the field tree as
\* they were, and a generation that follows a generation, with the session
\* and the configuration as they were, yields the same text.
C19_GenerationKeepsSession ==
    [][lastOp' = "generate" =>
          /\ header' = header
          /\ fields' = fields
          /\ generated'[1].params.fields = fields
          /\ (lastOp = "generate" /\ currentConfiguration' = currentConfiguration) =>
                /\ generated'[1].ok = generated[1].ok
                /\ generated'[1].text = generated[1].text]_vars

\* A structure with fields exported twice: the editor holds the second text
\* in place of the first line of the first
C19_Witness ==
    /\ lastOp = "generate" /\ generated # <<>> /\ generated[1].ok
    /\ fields # <<>> /\ generated[1].params.fields = fields
    /\ generated[1].params.name = header.name
    /\ document = generated[1].text \o Tail(generated[1].text)


\* Line i of the text opens, closes a declaration
OpensAt(lines, i) == STRUCTURE_START_PATTERN(lines[i + 1]).ok

ClosesAt(lines, i) == STRUCTURE_END_PATTERN(lines[i + 1])

\* The open lines before line s that are still unpaired when line s is read
UnpairedBefore(lines, s) ==
    {o \in 0..(s - 1) :
        /\ OpensAt(lines, o)
        /\ MatchingClose(lines, o + 1, 1) = NotFound
           \/ MatchingClose(lines, o + 1, 1) > s}

\* C20: the spans found in a text pair each close line with the most recent
\* open line still unpaired; a close line met when no open line is unpaired
\* ends no span; the level of a span is the number of open lines still
\* unpaired when its open line was read; any two spans are disjoint, or one
\* is strictly inside the other and has the larger level.
C20_StackDiscipline ==
    lastOp # "init" =>
        LET all == findAllStructureBoundaries(document)
            spans == {all[k] : k \in 1..Len(all)}
            opens == {o \in 0..(Len(document) - 1) :
                        /\ OpensAt(document, o)
                        /\ MatchingClose(document, o + 1, 1) # NotFound}
        IN  /\ Cardinality(spans) = Len(all)
            /\ {<<b.startLine, b.endLine>> : b \in spans}
                 = {<<o, MatchingClose(document, o + 1, 1)>> : o \in opens}
            /\ \A k \in 1..(Len(all) - 1) : all[k].endLine < all[k + 1].endLine
            /\ \A b \in spans :
                  /\ ClosesAt(document, b.endLine)
                  /\ b.startLine < b.endLine
                  /\ b.level = Cardinality(UnpairedBefore(document, b.startLine))
            /\ \A a, b \in spans :
                  a # b =>
                     \/ a.endLine < b.startLine
                     \/ b.endLine < a.startLine
                     \/ StrictlyInside(a, b) /\ a.level > b.level
                     \/ StrictlyInside(b, a) /\ b.level > a.level

\* A text scanned whose first line closes nothing, with a declaration
\* nested in another after it and an open line that stays unpaired
C20_Witness ==
    /\ lastOp # "init"
    /\ ClosesAt(document, 0)
    /\ \E a, b \in CompletedSpans(document) : StrictlyInside(a, b)
    /\ \E o \in 0..(Len(document) - 1) : UnmatchedOpen(document, o)


\* The modifiers of the first line of the document, and its dim value
HeaderModifiers == STRUCTURE_START_PATTERN(document[1]).modifiers

HasTemplateKeyword ==
    \E i \in 1..Len(HeaderModifiers) :
        HeaderModifiers[i] \in {"template", "Template", "TEMPLATE"}

DimValueOf(modifiers) ==
    IF \E i \in 1..Len(modifiers) : LowerCase(modifiers[i]) = "dim"
    THEN LET i == CHOOSE i \in 1..Len(modifiers) : LowerCase(modifiers[i]) = "dim"
             close == CHOOSE j \in (i + 1)..Len(modifiers) : modifiers[j] = ")"
         IN  SubSeq(modifiers, i + 2, close - 1)
    ELSE <<>>

\* C21: the header imported from an open line has kind *var, *auto when its
\* dim value begins with that marker, the stored dimension being the value
\* without the marker; else kind template when the line carries the template
\* keyword; in every other case kind Default; and unless a marker was
\* stripped, the dimension is the dim text, or 0 when there is no dim clause.
C21_HeaderKindFromModifiers ==
    lastOp \in {"import", "list import"} =>
        LET dimValue == DimValueOf(HeaderModifiers)
            marker == IF dimValue = <<>> THEN "" ELSE dimValue[1]
        IN  IF marker \in {"*var", "*Var", "*VAR"}
            THEN header.type = "*var" /\ header.dimension = Join(SubSeq(dimValue, 3, Len(dimValue)))
            ELSE IF marker \in {"*auto", "*Auto", "*AUTO"}
            THEN header.type = "*auto" /\ header.dimension = Join(SubSeq(dimValue, 3, Len(dimValue)))
            ELSE /\ header.type = IF HasTemplateKeyword THEN "template" ELSE "Default"
                 /\ header.dimension = IF dimValue = <<>> THEN "0" ELSE Join(dimValue)


\* The nodes of a forest in preorder, each with its name, whether it is an
\* aggregate, and its depth
RECURSIVE PreorderDepths(_, _)
PreorderDepths(flds, depth) ==
    IF flds = <<>> THEN <<>>
    ELSE <<[name |-> Head(flds).name, isStructure |-> Head(flds).isStructure,
            depth |-> depth]>>
           \o PreorderDepths(Head(flds).fields, depth + 1)
           \o PreorderDepths(Tail(flds), depth)

\* The spans of the text strictly inside span b
InnerSpans(lines, b) == {n \in CompletedSpans(lines) : StrictlyInside(n, b)}

\* The span that directly encloses the inner span n of b
EnclosingSpan(lines, b, n) ==
    CHOOSE p \in InnerSpans(lines, b) \cup {b} :
        /\ StrictlyInside(n, p)
        /\ \A q \in InnerSpans(lines, b) \cup {b} :
              StrictlyInside(n, q) => q.level <= p.level

\* What the lines of the body of span b declare, in order: an aggregate for
\* the open line of each inner span, a field for each field line, at the
\* depth the inner spans around the line give it
DeclaredInSpan(lines, b) ==
    LET around(k) == {n \in InnerSpans(lines, b) :
                        n.startLine < k /\ k < n.endLine}
        opens(k) == \E n \in InnerSpans(lines, b) : n.startLine = k
        body == SelectSeq([j \in 1..(b.endLine - b.startLine - 1) |-> b.startLine + j],
                          LAMBDA k : opens(k) \/ FIELD_PATTERN(lines[k + 1]).ok)
    IN  [j \in 1..Len(body) |->
            [name |-> IF opens(body[j])
                      THEN STRUCTURE_START_PATTERN(lines[body[j] + 1]).name
                      ELSE FIELD_PATTERN(lines[body[j] + 1]).name,
             isStructure |-> opens(body[j]),
             depth |-> 1 + Cardinality(around(body[j]))]]

\* C22: in the span selected at the cursor, the close line parseNestedStructure
\* finds for every open line of the body is the close line boundary detection
\* pairs with it, and the fields parsed are one aggregate per inner span, with
\* the declarations of its own lines as children, none dropped and none moved
\* into its parent (texts without the substructure shorthand).
C22_NestedCloseAgreesWithBoundaries ==
    (/\ parsed # <<>> /\ parsed[1].success
     /\ \A k \in 1..Len(document) : ~SUBSTRUCTURE_START_PATTERN(document[k]).ok) =>
        LET b == findStructureBoundaries(document, cursorLine)[1] IN
        /\ \A n \in InnerSpans(document, b) :
              LET p == EnclosingSpan(document, b, n) IN
              FindNestedEnd(SubSeq(document, p.startLine + 2, p.endLine),
                            n.startLine - p.startLine, 0)
                = n.endLine - p.startLine - 1
        /\ PreorderDepths(parsed[1].fields, 1) = DeclaredInSpan(document, b)


\* The body of the span selected at the cursor, as parseFields receives it
SelectedBody ==
    LET b == findStructureBoundaries(document, cursorLine)[1] IN
    SubSeq(document, b.startLine + 2, b.endLine)

\* Line k of body ends the children of the substructure on line s
EndsSubstructure(body, s, k) ==
    /\ k > s /\ body[k].toks # <<>> /\ body[k].toks[1] # "//"
    /\ body[k].ind <= body[s].ind
    /\ \/ FIELD_PATTERN(body[k]).ok
       \/ SUBSTRUCTURE_START_PATTERN(body[k]).ok
       \/ OpenKeywordTest(body[k])
       \/ STRUCTURE_END_PATTERN(body[k])

\* The substructure lines of body whose children line k is one of
SubstructuresAround(body, k) ==
    {s \in 1..(k - 1) :
        /\ SUBSTRUCTURE_START_PATTERN(body[s]).ok
        /\ \A t \in (s + 1)..k : ~EndsSubstructure(body, s, t)}

\* What a body of fields and substructures declares, in order, each line at
\* the depth the substructures around it give it
DeclaredInBody(body) ==
    LET lines == SelectSeq([k \in 1..Len(body) |-> k],
                           LAMBDA k : FIELD_PATTERN(body[k]).ok
                                      \/ SUBSTRUCTURE_START_PATTERN(body[k]).ok)
    IN  [j \in 1..Len(lines) |->
            [name |-> body[lines[j]].toks[1],
             isStructure |-> SUBSTRUCTURE_START_PATTERN(body[lines[j]]).ok,
             depth |-> 1 + Cardinality(SubstructuresAround(body, lines[j]))]]

\* C23: in a body of fields and substructure lines, every recognised line
\* that follows a substructure line and comes before the first line at its
\* indentation or less that looks like a field, an open or a close is parsed
\* as a child of that substructure, also when no such line remains in the
\* body, and the line that ends the children is parsed after them.
C23_SubstructureChildren ==
    (/\ parsed # <<>> /\ parsed[1].success
     /\ \E k \in 1..Len(document) : SUBSTRUCTURE_START_PATTERN(document[k]).ok
     /\ \A k \in 2..Len(document) : ~OpenKeywordTest(document[k])) =>
        PreorderDepths(parsed[1].fields, 1) = DeclaredInBody(SelectedBody)


\* C24: an import that fails, is found invalid or is not confirmed leaves the
\* header and the field tree as they were; a confirmed valid import leaves
\* them equal to the parsed header and fields, with nothing of the previous
\* structure.
C24_ImportAllOrNothing ==
    [][/\ lastOp' \in {"import failed", "import invalid", "import declined",
                      "list empty", "list dismissed", "list declined"} =>
             header' = header /\ fields' = fields
       /\ lastOp' = "import" =>
             header' = parsed'[1].header /\ fields' = parsed'[1].fields
       /\ lastOp' = "list import" =>
             \E k \in 1..Len(extracted'[1]) :
                 /\ header' = extracted'[1][k].header
                 /\ fields' = extracted'[1][k].fields]_vars

\* An import at the cursor declined while the session holds another structure
C24_Witness ==
    /\ lastOp = "import declined"
    /\ parsed[1].success /\ fields # <<>>
    /\ header.name # parsed[1].header.name
    /\ fields # parsed[1].fields


\* C25: every turn of the loop of parseFields moves its line index forward, a
\* nested aggregate resuming after its close and a substructure after its
\* own line; every call made from a turn is given a slice strictly shorter
\* than the caller's and inside it, so that the lines the calls in progress
\* have still to read grow fewer with every turn until the parse returns.
C25_FieldParsingTerminates ==
    [][pending # <<>> =>
            \/ /\ Len(pending') = Len(pending)
               /\ pending'[Len(pending)].i > TopFrame.i
               /\ pending'[Len(pending)].i <= TopFrame.hi
            \/ /\ Len(pending') = Len(pending) + 1
               /\ pending'[Len(pending)].i > TopFrame.i
               /\ pending'[Len(pending)].i <= TopFrame.hi
               /\ pending'[Len(pending')].lo > TopFrame.lo
               /\ pending'[Len(pending')].hi <= TopFrame.hi
               /\ pending'[Len(pending')].lo <= pending'[Len(pending')].hi
            \/ /\ Len(pending') = Len(pending) - 1
               /\ TopFrame.i >= TopFrame.hi
               /\ Len(pending') = 0 <=> lastOp' = "parseFields returned"]_vars

\* A parse that has returned a substructure with children and a field after
\* it, the result being what parseStructureAtCursor returns
C25_Witness ==
    /\ lastOp = "parseFields returned"
    /\ \E k \in 1..(Len(parsed[1].fields) - 1) :
          /\ parsed[1].fields[k].isStructure
          /\ parsed[1].fields[k].fields # <<>>
          /\ \E j \in 1..Len(document) :
                SUBSTRUCTURE_START_PATTERN(document[j]).ok
    /\ parsed[1] = parseStructureAtCursor(document, cursorLine)

-----------------------------------------------------------------------------
\* The places of a forest, each the sequence of child positions that leads
\* from the top level to one node
RECURSIVE PlacesOf(_)
PlacesOf(flds) ==
    UNION {{<<k>>} \cup {<<k>> \o p : p \in PlacesOf(flds[k].fields)} :
               k \in 1..Len(flds)}

\* The node at a place
RECURSIVE NodeAt(_, _)
NodeAt(flds, place) ==
    IF Len(place) = 1 THEN flds[place[1]]
    ELSE NodeAt(flds[place[1]].fields, Tail(place))

\* The forest without the node at a place and without its descendants, every
\* other node where it was
RECURSIVE WithoutPlace(_, _)
WithoutPlace(flds, place) ==
    IF Len(place) = 1
    THEN SubSeq(flds, 1, place[1] - 1) \o SubSeq(flds, place[1] + 1, Len(flds))
    ELSE [flds EXCEPT ![place[1]].fields = WithoutPlace(@, Tail(place))]

(* C26.  In every state of the editing session, imports of nested          *)
(* structures included, deleteField on the item shown at any place of the  *)
(* tree removes exactly the node at that place with its descendants: all   *)
(* other nodes stay, in their order, and only their ids are renumbered.    *)
C26_DeleteRemovesSelectedNode ==
    \A place \in PlacesOf(fields) :
        \E r \in {deleteById(fields, NodeAt(fields, place).idNumber)} :
            /\ r.deleted
            /\ StripIds(reassignIdNumbers(r.fields))
                   = StripIds(WithoutPlace(fields, place))


-----------------------------------------------------------------------------
\* The completed spans of a document that no other completed span encloses
OutermostSpans(lines) ==
    {b \in CompletedSpans(lines) :
        \A y \in CompletedSpans(lines) : ~StrictlyInside(b, y)}

(* C27.  Whole-document extraction is complete: extractAllStructures       *)
(* returns one result for every completed span that no other completed     *)
(* span encloses, in the order of their open lines, also when the document *)
(* holds open lines that are never closed.                                 *)
C27_ExtractionComplete ==
    extracted # <<>> =>
        LET out == OutermostSpans(document)
            results == extracted[1]
        IN  /\ Len(results) = Cardinality(out)
            /\ \A b \in out :
                  LET k == 1 + Cardinality({y \in out : y.startLine < b.startLine})
                  IN  k <= Len(results) /\ results[k] = StructureOf(document, b)

-----------------------------------------------------------------------------
\* The places of the aggregates of a forest that carry a name
PlacesNamed(flds, name) ==
    {p \in PlacesOf(flds) :
        NodeAt(flds, p).isStructure /\ NodeAt(flds, p).name = name}

\* The forest new is the forest old with one field more, appended as the
\* last child of the aggregate at a place
AppendedAt(old, new, place) ==
    /\ place \in PlacesOf(new)
    /\ NodeAt(new, place).fields # <<>>
    /\ ~NodeAt(new, place).fields[Len(NodeAt(new, place).fields)].isStructure
    /\ StripIds(WithoutPlace(new, place \o <<Len(NodeAt(new, place).fields)>>))
           = StripIds(old)

(* C28.  An add-field-to-substructure command that was started on an       *)
(* aggregate and completes after other commands have run appends its field *)
(* to that aggregate when the tree still holds it, and changes nothing     *)
(* when the tree holds it no longer: the field never lands in another      *)
(* aggregate, whatever was deleted, inserted or imported in between.       *)
C28_AttachToChosenSubstructure ==
    [][(/\ pending # <<>> /\ pending' = <<>>
        /\ pending[1].isSubstructure
        /\ pending[1].item \in SubstructureNames
        /\ lastOp' # "insertField dismissed")
           => IF PlacesNamed(fields, pending[1].item) = {}
              THEN fields' = fields
              ELSE \E place \in PlacesNamed(fields, pending[1].item) :
                      AppendedAt(fields, fields', place)]_vars

-----------------------------------------------------------------------------
\* The texts the dimension prompt accepts
PositiveIntegerTexts ==
    {Join(t) : t \in {u \in TypedTexts(MaxDimensionKeys) : isPositiveInteger(u)}}

(* C29.  Whenever the header is reported valid and its kind is not         *)
(* Template, its dimension is a positive integer, as the dimension prompt  *)
(* enforces, so that the dimension clause of the open line generated from  *)
(* it never reads dim(0).                                                  *)
C29_ValidHeaderHasPositiveDimension ==
    (isHeaderValid(header) /\ header.type # "template") =>
        /\ header.dimension \in PositiveIntegerTexts
        /\ \A f \in StructureFormats :
              \E clause \in {generateDimensionClause(header.type, header.dimension,
                                                     FORMAT_MAP[f])} :
                 \A k \in 1..Len(clause) : clause[k] # "0"

-----------------------------------------------------------------------------
\* The spans of a text that lie below level 0, in the order of their open
\* lines
NestedSpans(text) ==
    LET all == findAllStructureBoundaries(text)
        at(n) == CHOOSE k \in 1..Len(all) : all[k].startLine = n - 1
    IN  [j \in 1..Len(NestedOpenLines(text)) |-> all[at(NestedOpenLines(text)[j])]]

(* C30.  Text returned by a generation that succeeds is balanced: it holds *)
(* as many open lines as close lines, boundary detection finds in it one   *)
(* span of level 0, from the first line to the last, and one nested span   *)
(* for every aggregate Field that is rendered, in preorder and at the      *)
(* level of its depth; a child replaced by a comment marker leaves none.   *)
C30_GeneratedTextBalanced ==
    GeneratedText =>
        LET text == generated[1].text
            all == findAllStructureBoundaries(text)
            rendered == RenderedAggregates(generated[1].params.fields, 1)
        IN  /\ Cardinality({k \in 1..Len(text) : IsOpenLine(text[k])})
                 = Cardinality({k \in 1..Len(text) : IsCloseLine(text[k])})
            /\ Len(all) = Cardinality({k \in 1..Len(text) : IsOpenLine(text[k])})
            /\ \E k \in 1..Len(all) :
                  /\ all[k].level = 0
                  /\ all[k].startLine = 0
                  /\ all[k].endLine = Len(text) - 1
                  /\ \A j \in 1..Len(all) : all[j].level = 0 => j = k
            /\ Len(NestedOpenLines(text)) = Len(rendered)
            /\ \A j \in 1..Len(rendered) :
                  /\ NestedSpans(text)[j].level = rendered[j].depth
                  /\ NestedSpans(text)[j].headerMatch.name = Trim(rendered[j].field.name)

=============================================================================
